---- MODULE Spec2Model ----
(***************************************************************************)
(* A model of github.com/juju/httprequest: the struct-tag driven           *)
(* marshal/unmarshal engine with its cache of type descriptors, and the    *)
(* handler adapter built on top of it.                                     *)
(*                                                                         *)
(* Strings are sequences of one-character strings.  A nil error is the     *)
(* record NoErr; a pointer is a sequence of length 0 (nil) or 1.           *)
(***************************************************************************)
EXTENDS Integers, Sequences, FiniteSets, TLC

VARIABLES typ, typeMap, call, handler

vars == <<typ, typeMap, call, handler>>

\* No handler has been made.
NoHandler == [state |-> "none"]

(***************************************************************************)
(* Bounds of the model.                                                    *)
(***************************************************************************)
MaxFields == 3
MaxCallFields == 2
MaxPathLen == 3
MaxCallers == 3

(***************************************************************************)
(* Errors.  cause is the errgo cause the callers test for.                 *)
(***************************************************************************)
ErrUnmarshal == "httprequest unmarshal error"
ErrBadUnmarshalType == "httprequest bad unmarshal type"

NoErr == [kind |-> "nil", cause |-> "", name |-> <<>>, flag |-> ""]
Err(kind) == [kind |-> kind, cause |-> "", name |-> <<>>, flag |-> ""]
ErrNamed(kind, name) == [kind |-> kind, cause |-> "", name |-> name, flag |-> ""]
ErrFlag(kind, flag) == [kind |-> kind, cause |-> "", name |-> <<>>, flag |-> flag]
WithCause(err, cause) == [err EXCEPT !.cause = cause]
IsErr(err) == err.kind # "nil"

(***************************************************************************)
(* Tag sources and the codecs a field can be given.                        *)
(***************************************************************************)
sourceNone == "none"
sourcePath == "path"
sourceForm == "form"
sourceBody == "body"

(***************************************************************************)
(* Struct types.  A struct type is a sequence of field declarations:       *)
(*   name      the Go field name (the type name for an anonymous field)    *)
(*   tagName   the first item of the httprequest tag (<<>> when empty)     *)
(*   flags     the remaining comma-separated items of the tag              *)
(*   kind      the field's type with any pointer removed                   *)
(*   ptr       whether the field's type is a pointer to kind               *)
(*   exported  PkgPath = ""                                                *)
(*   anon      whether the field is embedded                               *)
(***************************************************************************)
Decl(tagName, flags, kind, ptr) ==
    [name |-> <<>>, tagName |-> tagName, flags |-> flags, kind |-> kind,
     ptr |-> ptr, exported |-> TRUE, anon |-> FALSE]

Named(d, name) == [d EXCEPT !.name = name]

\* type SFG struct { F int `httprequest:",form"`; G int `httprequest:",form"` }
SFGFields ==
    << Named(Decl(<<>>, <<"form">>, "int", FALSE), <<"F">>),
       Named(Decl(<<>>, <<"form">>, "int", FALSE), <<"G">>) >>

\* An anonymous member of the named struct type.
Embed(name, kind) ==
    [Decl(<<>>, <<>>, kind, FALSE) EXCEPT !.anon = TRUE, !.name = name]

\* type SF struct { F int `httprequest:",form"` }
SFFields == << SFGFields[1] >>
\* type SG struct { G int `httprequest:",form"` }
SGFields == << SFGFields[2] >>

\* The fields of the struct type that a field of the given kind holds.
StructFieldsOf(kind) ==
    CASE kind = "SFG" -> SFGFields
      [] kind = "SF" -> SFFields
      [] kind = "SG" -> SGFields
      [] kind = "SFG1" -> << Embed(<<"S", "F", "G">>, "SFG") >>
      [] kind = "SF1" -> << Embed(<<"S", "F">>, "SF") >>
      [] kind = "SG1" -> << Embed(<<"S", "G">>, "SG") >>
      [] kind = "P" -> << [Embed(<<"S", "F", "G">>, "SFG") EXCEPT !.ptr = TRUE] >>
      [] OTHER -> <<>>

IsStructKind(kind) ==
    kind \in {"SFG", "embedded", "SF", "SG", "SFG1", "SF1", "SG1", "P"}

GoNames == << <<"A">>, <<"B">>, <<"C">>, <<"D">> >>

\* The field declarations the struct types of the model are built from.
FieldDecls ==
    { Decl(<<>>, <<>>, "string", FALSE),
      Decl(<<>>, <<>>, "int", TRUE),
      [Decl(<<>>, <<>>, "SFG", TRUE) EXCEPT !.anon = TRUE, !.name = <<"S", "F", "G">>],
      Decl(<<"a">>, <<"path">>, "string", FALSE),
      Decl(<<"b">>, <<"form">>, "int", FALSE),
      Decl(<<"b">>, <<"form">>, "int", TRUE),
      Decl(<<"a">>, <<"form">>, "text", FALSE),
      Decl(<<"b">>, <<"form">>, "strings", FALSE),
      Decl(<<"a">>, <<"path">>, "strings", FALSE),
      Decl(<<>>, <<"body">>, "string", FALSE),
      Decl(<<>>, <<"body">>, "embedded", TRUE) }

\* A struct type made of the given declarations, named by position.
MkStruct(ds) ==
    [i \in 1..Len(ds) |-> IF ds[i].anon THEN ds[i] ELSE Named(ds[i], GoNames[i])]

SeqsUpTo(S, n) == UNION {[1..k -> S] : k \in 0..n}

\* Go rejects a struct that declares the same field name twice.
DistinctNames(st) == \A i, j \in 1..Len(st) : i # j => st[i].name # st[j].name

StructTypes ==
    {st \in {MkStruct(ds) : ds \in SeqsUpTo(FieldDecls, MaxFields)} : DistinctNames(st)}

\* reflect.Type values handed to the library: pointers to structs, and the
\* types that are not.
PtrTo(st) == [kind |-> "ptr", elem |-> "struct", fields |-> st]
NonPtrTypes == { [kind |-> "struct", elem |-> "", fields |-> <<>>],
                 [kind |-> "ptr", elem |-> "int", fields |-> <<>>],
                 [kind |-> "int", elem |-> "", fields |-> <<>>] }
Types == {PtrTo(st) : st \in StructTypes} \cup NonPtrTypes

(***************************************************************************)
(* parseTag: the tag of a field as (name, source).                         *)
(***************************************************************************)
RECURSIVE parseTagFlags(_, _, _)
parseTagFlags(flags, i, source) ==
    IF i > Len(flags) THEN [err |-> NoErr, source |-> source]
    ELSE IF flags[i] \in {"path", "form", "body"}
         THEN parseTagFlags(flags, i + 1, flags[i])
         ELSE [err |-> ErrFlag("unknown tag flag", flags[i]), source |-> sourceNone]

parseTag(f) ==
    IF f.tagName = <<>> /\ f.flags = <<>>
    THEN [err |-> NoErr, name |-> f.name, source |-> sourceNone]
    ELSE LET r == parseTagFlags(f.flags, 1, sourceNone)
         IN  [err |-> r.err,
              name |-> IF f.tagName # <<>> THEN f.tagName ELSE f.name,
              source |-> r.source]

(***************************************************************************)
(* fields: the fields of a struct type with those of its anonymous         *)
(* members, as records [Name, Index, decl], ordered by index.              *)
(***************************************************************************)
Put(byName, name, sf) ==
    [n \in DOMAIN byName \cup {name} |-> IF n = name THEN sf ELSE byName[n]]

\* A variant in which the first of two fields at the same depth stays.
RECURSIVE addFields_FirstStays(_, _, _, _)
addFields_FirstStays(st, i, byName, index) ==
    IF i > Len(st) THEN byName
    ELSE LET f == st[i]
             idx == Append(index, i)
             ok == f.name \in DOMAIN byName
             new == [Name |-> f.name, Index |-> idx, decl |-> f]
             b1 == IF ok /\ Len(byName[f.name].Index) = Len(idx)
                   THEN byName
                   ELSE IF ok
                   THEN IF Len(idx) < Len(byName[f.name].Index)
                        THEN Put(byName, f.name, new) ELSE byName
                   ELSE Put(byName, f.name, new)
             b2 == IF f.anon /\ IsStructKind(f.kind)
                   THEN addFields_FirstStays(StructFieldsOf(f.kind), 1, b1, idx)
                   ELSE b1
         IN  addFields_FirstStays(st, i + 1, b2, index)

RECURSIVE addFields(_, _, _, _)
addFields(st, i, byName, index) ==
    IF i > Len(st) THEN byName
    ELSE LET f == st[i]
             idx == Append(index, i)
             ok == f.name \in DOMAIN byName
             new == [Name |-> f.name, Index |-> idx, decl |-> f]
             b1 == IF ok /\ Len(byName[f.name].Index) = Len(idx)
                   THEN \* Same name at the same depth: cancel.
                        Put(byName, f.name, [byName[f.name] EXCEPT !.Name = <<>>])
                   ELSE IF ok
                   THEN IF Len(idx) < Len(byName[f.name].Index)
                        THEN Put(byName, f.name, new) ELSE byName
                   ELSE Put(byName, f.name, new)
             b2 == IF f.anon /\ IsStructKind(f.kind)
                   THEN addFields(StructFieldsOf(f.kind), 1, b1, idx)
                   ELSE b1
         IN  addFields(st, i + 1, b2, index)

\* fieldsByIndex.Less
RECURSIVE Less(_, _)
Less(indexi, indexj) ==
    IF Len(indexi) # 0 /\ Len(indexj) # 0
    THEN IF Head(indexi) # Head(indexj)
         THEN Head(indexi) < Head(indexj)
         ELSE Less(Tail(indexi), Tail(indexj))
    ELSE Len(indexi) < Len(indexj)

\* sort.Sort(fieldsByIndex): the indexes are distinct, so the order is total.
RECURSIVE SortByIndex(_)
SortByIndex(S) ==
    IF S = {} THEN <<>>
    ELSE LET m == CHOOSE x \in S : \A y \in S \ {x} : Less(x.Index, y.Index)
         IN  <<m>> \o SortByIndex(S \ {m})

EmptyMap == [n \in {} |-> <<>>]

fields(st) ==
    LET byName == addFields(st, 1, EmptyMap, <<>>)
    IN  SortByIndex({byName[n] : n \in {m \in DOMAIN byName : byName[m].Name # <<>>}})

(***************************************************************************)
(* The codec chosen for a field.                                           *)
(***************************************************************************)
implementsTextUnmarshaler(kind) == kind = "text"
implementsTextMarshaler(kind) == kind = "text"

getUnmarshaler(tag, kind) ==
    IF tag.source = sourceNone THEN [err |-> NoErr, f |-> "unmarshalNop"]
    ELSE IF tag.source = sourceBody THEN [err |-> NoErr, f |-> "unmarshalBody"]
    ELSE IF kind = "strings"
         THEN IF tag.source # sourceForm
              THEN [err |-> Err("invalid target type []string for path parameter"), f |-> ""]
              ELSE [err |-> NoErr, f |-> "unmarshalAllField"]
    ELSE IF kind = "string" THEN [err |-> NoErr, f |-> "unmarshalString"]
    ELSE IF implementsTextUnmarshaler(kind)
         THEN [err |-> NoErr, f |-> "unmarshalWithUnmarshalText"]
    ELSE [err |-> NoErr, f |-> "unmarshalWithScan"]

getMarshaler(tag, kind) ==
    IF tag.source = sourceNone THEN [err |-> NoErr, f |-> "marshalNop"]
    ELSE IF tag.source = sourceBody THEN [err |-> NoErr, f |-> "marshalBody"]
    ELSE IF kind = "strings"
         THEN IF tag.source # sourceForm
              THEN [err |-> Err("invalid target type []string for path parameter"), f |-> ""]
              ELSE [err |-> NoErr, f |-> "marshalAllField"]
    ELSE IF kind = "string" THEN [err |-> NoErr, f |-> "marshalString"]
    ELSE IF implementsTextMarshaler(kind)
         THEN [err |-> NoErr, f |-> "marshalWithMarshalText"]
    ELSE [err |-> NoErr, f |-> "marshalWithSprint"]

(***************************************************************************)
(* parseRequestType: the descriptor of a type, or an error.  A descriptor  *)
(* is the sequence of its fields: [index, name, source, kind, unmarshal,   *)
(* marshal, makeResult].                                                   *)
(***************************************************************************)
NoType == <<>>

RECURSIVE parseFields(_, _, _, _)
parseFields(fs, i, hasBody, pt) ==
    IF i > Len(fs) THEN [err |-> NoErr, pt |-> pt]
    ELSE LET f == fs[i].decl
             tag == parseTag(f)
             um == getUnmarshaler(tag, f.kind)
             m == getMarshaler(tag, f.kind)
             field == [index |-> fs[i].Index, name |-> tag.name, source |-> tag.source,
                       kind |-> f.kind, unmarshal |-> um.f, marshal |-> m.f,
                       makeResult |-> IF f.ptr THEN "makePointerResult"
                                      ELSE "makeValueResult"]
         IN  IF ~f.exported THEN parseFields(fs, i + 1, hasBody, pt)
             ELSE IF IsErr(tag.err)
             THEN [err |-> [tag.err EXCEPT !.kind = "bad tag", !.name = f.name],
                   pt |-> NoType]
             ELSE IF tag.source = sourceBody /\ hasBody
             THEN [err |-> Err("more than one body field specified"), pt |-> NoType]
             ELSE IF IsErr(um.err) THEN [err |-> um.err, pt |-> NoType]
             ELSE IF IsErr(m.err) THEN [err |-> m.err, pt |-> NoType]
             ELSE IF f.anon /\ tag.source # sourceBody /\ tag.source # sourceNone
             THEN [err |-> Err("httprequest tag not yet supported on anonymous fields"),
                   pt |-> NoType]
             ELSE parseFields(fs, i + 1, hasBody \/ tag.source = sourceBody,
                              Append(pt, field))

parseRequestType(t) ==
    IF t.kind # "ptr" \/ t.elem # "struct"
    THEN [err |-> Err("type is not pointer to struct"), pt |-> NoType]
    ELSE parseFields(fields(t.fields), 1, FALSE, <<>>)

(***************************************************************************)
(* getRequestType: the cached descriptor when there is one; otherwise the  *)
(* type is parsed and, when that succeeds, added to the cache.  The result *)
(* carries the cache as the call leaves it.                                *)
(***************************************************************************)
getRequestType_StoresBeforeErrorCheck(cache, t) ==
    IF t \in DOMAIN cache
    THEN [err |-> NoErr, pt |-> cache[t], cache |-> cache]
    ELSE LET r == parseRequestType(t)
         IN  [err |-> r.err, pt |-> r.pt, cache |-> Put(cache, t, r.pt)]

getRequestType(cache, t) ==
    IF t \in DOMAIN cache
    THEN [err |-> NoErr, pt |-> cache[t], cache |-> cache]
    ELSE LET r == parseRequestType(t)
         IN  IF IsErr(r.err)
             THEN [err |-> r.err, pt |-> NoType, cache |-> cache]
             ELSE [err |-> NoErr, pt |-> r.pt, cache |-> Put(cache, t, r.pt)]

(***************************************************************************)
(* Values.  A struct value is the sequence of its field values; a pointer  *)
(* is <<>> (nil) or <<v>>; a map is [isNil, kv].                           *)
(***************************************************************************)
NilMap == [isNil |-> TRUE, kv |-> EmptyMap]

RECURSIVE Zero(_)
Zero(kind) ==
    CASE kind = "int" -> 0
      [] kind = "map" -> NilMap
      [] kind = "embedded" -> [F1 |-> <<>>, F2 |-> 0, F3 |-> <<>>]
      [] kind = "SFG" -> [i \in 1..Len(SFGFields) |->
                            IF SFGFields[i].ptr THEN <<>> ELSE Zero(SFGFields[i].kind)]
      [] kind = "P" -> << <<>> >>
      [] OTHER -> <<>>

ZeroField(f) == IF f.ptr THEN <<>> ELSE Zero(f.kind)
ZeroStruct(st) == [i \in 1..Len(st) |-> ZeroField(st[i])]

\* reflect.Value.FieldByIndex: panics when it goes through a nil embedded
\* pointer.
RECURSIVE FieldByIndex(_, _, _)
FieldByIndex(v, st, index) ==
    LET i == Head(index)
    IN  IF Len(index) = 1 THEN [panic |-> FALSE, v |-> v[i]]
        ELSE IF st[i].ptr
             THEN IF v[i] = <<>> THEN [panic |-> TRUE, v |-> <<>>]
                  ELSE FieldByIndex(v[i][1], StructFieldsOf(st[i].kind), Tail(index))
             ELSE FieldByIndex(v[i], StructFieldsOf(st[i].kind), Tail(index))

\* The struct with the field at the index replaced.
RECURSIVE SetByIndex(_, _, _, _)
SetByIndex(v, st, index, fv) ==
    LET i == Head(index)
    IN  IF Len(index) = 1 THEN [v EXCEPT ![i] = fv]
        ELSE IF st[i].ptr
             THEN [v EXCEPT ![i] =
                      <<SetByIndex(v[i][1], StructFieldsOf(st[i].kind), Tail(index), fv)>>]
             ELSE [v EXCEPT ![i] =
                      SetByIndex(v[i], StructFieldsOf(st[i].kind), Tail(index), fv)]

\* makePointerResult / makeValueResult: the field as makeResult leaves it,
\* and the value it returns.
makeResult(f, fv) ==
    IF f.makeResult = "makePointerResult" /\ fv = <<>> THEN <<Zero(f.kind)>> ELSE fv
Elem(f, fv) == IF f.makeResult = "makePointerResult" THEN fv[1] ELSE fv
WithElem(f, v) == IF f.makeResult = "makePointerResult" THEN <<v>> ELSE v

(***************************************************************************)
(* JSON texts, as what they parse to.                                      *)
(***************************************************************************)
JStr(s) == [j |-> "str", s |-> s, n |-> 0, o |-> EmptyMap]
JNum(n) == [j |-> "num", s |-> <<>>, n |-> n, o |-> EmptyMap]
JObj(o) == [j |-> "obj", s |-> <<>>, n |-> 0, o |-> o]
JNull == [j |-> "null", s |-> <<>>, n |-> 0, o |-> EmptyMap]
JEmpty == [j |-> "empty", s |-> <<>>, n |-> 0, o |-> EmptyMap]
JInvalid == [j |-> "invalid", s |-> <<>>, n |-> 0, o |-> EmptyMap]

\* encoding/json.Marshal of a value of the given kind.
jsonMarshal(kind, v) ==
    CASE kind = "int" -> [err |-> NoErr, data |-> JNum(v)]
      [] kind = "map" ->
            [err |-> NoErr,
             data |-> IF v.isNil THEN JNull
                      ELSE JObj([k \in DOMAIN v.kv |-> JNum(v.kv[k])])]
      [] kind = "embedded" ->
            [err |-> NoErr,
             data |-> JObj([k \in {"name", "age", "address"} |->
                              CASE k = "name" -> JStr(v.F1)
                                [] k = "age" -> JNum(v.F2)
                                [] OTHER -> IF v.F3 = <<>> THEN JNull ELSE JStr(v.F3[1])])]
      [] kind = "string" -> [err |-> NoErr, data |-> JStr(v)]
      [] kind = "errorResponse" ->
            [err |-> NoErr, data |-> JObj([k \in {"Message"} |-> JStr(v.Message)])]
      [] kind = "nil" -> [err |-> NoErr, data |-> JNull]
      [] OTHER -> [err |-> Err("json: unsupported type"), data |-> JEmpty]

\* encoding/json.Unmarshal of a text into a value of the given kind that
\* currently holds cur.
jsonUnmarshal(data, kind, cur) ==
    LET bad == [err |-> Err("json: cannot unmarshal"), v |-> cur]
        ok(v) == [err |-> NoErr, v |-> v]
    IN  CASE data.j \in {"empty", "invalid"} -> [err |-> Err("json: syntax error"), v |-> cur]
          [] kind = "int" ->
                IF data.j = "num" THEN ok(data.n) ELSE IF data.j = "null" THEN ok(cur) ELSE bad
          [] kind = "string" ->
                IF data.j = "str" THEN ok(data.s) ELSE IF data.j = "null" THEN ok(cur) ELSE bad
          [] kind = "map" ->
                IF data.j = "null" THEN ok(NilMap)
                ELSE IF data.j = "obj" /\ \A k \in DOMAIN data.o : data.o[k].j \in {"num", "null"}
                THEN ok([isNil |-> FALSE,
                         kv |-> [k \in DOMAIN cur.kv \cup DOMAIN data.o |->
                                   IF k \in DOMAIN data.o
                                   THEN IF data.o[k].j = "num" THEN data.o[k].n ELSE 0
                                   ELSE cur.kv[k]]])
                ELSE bad
          [] kind = "embedded" ->
                IF data.j = "null" THEN ok(cur)
                ELSE IF data.j # "obj" THEN bad
                ELSE LET has(k, j) == k \in DOMAIN data.o /\ data.o[k].j = j
                         mismatch(k, j) == k \in DOMAIN data.o /\ data.o[k].j \notin {j, "null"}
                         v == [F1 |-> IF has("name", "str") THEN data.o["name"].s ELSE cur.F1,
                               F2 |-> IF has("age", "num") THEN data.o["age"].n ELSE cur.F2,
                               F3 |-> IF has("address", "str") THEN <<data.o["address"].s>>
                                      ELSE IF has("address", "null") THEN <<>> ELSE cur.F3]
                     IN  IF mismatch("name", "str") \/ mismatch("age", "num")
                            \/ mismatch("address", "str")
                         THEN [err |-> Err("json: cannot unmarshal"), v |-> v]
                         ELSE ok(v)
          [] kind = "RemoteError" ->
                IF data.j = "null" THEN ok(cur)
                ELSE IF data.j # "obj" THEN bad
                ELSE IF "Message" \notin DOMAIN data.o \/ data.o["Message"].j = "null"
                THEN ok(cur)
                ELSE IF data.o["Message"].j = "str"
                THEN ok([Message |-> data.o["Message"].s])
                ELSE bad
          [] OTHER -> bad

(***************************************************************************)
(* Request parameters: [form, pathVar, body] with form a function from     *)
(* names to their values, pathVar a sequence of [Key, Value] and body      *)
(* [readOK, data].                                                         *)
(***************************************************************************)
\* formGetters[sourceForm]
formGet(name, p) ==
    IF name \in DOMAIN p.form /\ Len(p.form[name]) > 0
    THEN [ok |-> TRUE, val |-> p.form[name][1]]
    ELSE [ok |-> FALSE, val |-> <<>>]

\* formGetters[sourcePath]
pathGet(name, p) ==
    LET hits == {i \in 1..Len(p.pathVar) : p.pathVar[i].Key = name}
    IN  IF hits = {} THEN [ok |-> FALSE, val |-> <<>>]
        ELSE [ok |-> TRUE,
              val |-> p.pathVar[CHOOSE i \in hits : \A k \in hits : i <= k].Value]

getVal(source, name, p) == IF source = sourceForm THEN formGet(name, p) ELSE pathGet(name, p)

Digits == <<"0", "1", "2", "3", "4", "5", "6", "7", "8", "9">>
IsDigit(c) == \E d \in 1..Len(Digits) : Digits[d] = c
DigitOf(c) == (CHOOSE d \in 1..Len(Digits) : Digits[d] = c) - 1

RECURSIVE ScanDigits(_, _)
ScanDigits(s, acc) ==
    IF s # <<>> /\ IsDigit(Head(s)) THEN ScanDigits(Tail(s), acc * 10 + DigitOf(Head(s)))
    ELSE acc

\* fmt.Sscan(val, &i) for an int: an optional sign and the leading digits;
\* what follows them is left unread.
Sscan(kind, val) ==
    LET neg == val # <<>> /\ Head(val) = "-"
        rest == IF neg THEN Tail(val) ELSE val
    IN  IF kind = "int" /\ rest # <<>> /\ IsDigit(Head(rest))
        THEN [err |-> NoErr,
              v |-> IF neg THEN 0 - ScanDigits(rest, 0) ELSE ScanDigits(rest, 0)]
        ELSE [err |-> Err("cannot parse"), v |-> 0]

\* exclamationUnmarshaler.UnmarshalText
UnmarshalText(b) ==
    IF Len(b) = 0 THEN [err |-> Err("empty string!"), v |-> <<>>]
    ELSE [err |-> NoErr, v |-> b \o <<"!">>]

(***************************************************************************)
(* The unmarshalers.  Each gives the error it returns and the field value  *)
(* it leaves.                                                              *)
(***************************************************************************)
unmarshalNop_NoMakeResult(f, fv, p) == [err |-> NoErr, fv |-> fv]

unmarshalNop(f, fv, p) == [err |-> NoErr, fv |-> makeResult(f, fv)]

unmarshalAllField(f, fv, p) ==
    IF f.name \in DOMAIN p.form /\ Len(p.form[f.name]) > 0
    THEN [err |-> NoErr, fv |-> WithElem(f, p.form[f.name])]
    ELSE [err |-> NoErr, fv |-> fv]

unmarshalString(f, fv, p) ==
    LET g == getVal(f.source, f.name, p)
    IN  IF g.ok THEN [err |-> NoErr, fv |-> WithElem(f, g.val)]
        ELSE [err |-> NoErr, fv |-> fv]

unmarshalBody_KeepsField(f, fv, p) ==
    IF ~p.body.readOK THEN [err |-> Err("cannot read request body"), fv |-> fv]
    ELSE LET result == makeResult(f, fv)
             r == jsonUnmarshal(p.body.data, f.kind, Elem(f, result))
         IN  IF IsErr(r.err)
             THEN [err |-> Err("cannot unmarshal request body"), fv |-> result]
             ELSE [err |-> NoErr, fv |-> result]

unmarshalBody(f, fv, p) ==
    IF ~p.body.readOK THEN [err |-> Err("cannot read request body"), fv |-> fv]
    ELSE LET result == makeResult(f, fv)
             r == jsonUnmarshal(p.body.data, f.kind, Elem(f, result))
         IN  IF IsErr(r.err)
             THEN [err |-> Err("cannot unmarshal request body"), fv |-> WithElem(f, r.v)]
             ELSE [err |-> NoErr, fv |-> WithElem(f, r.v)]

\* A variant that leaves the field alone when the request has no value.
unmarshalWithUnmarshalText_SkipsAbsent(f, fv, p) ==
    LET g == getVal(f.source, f.name, p)
        result == makeResult(f, fv)
        r == UnmarshalText(g.val)
    IN  IF ~g.ok THEN [err |-> NoErr, fv |-> fv]
        ELSE IF IsErr(r.err) THEN [err |-> r.err, fv |-> result]
        ELSE [err |-> NoErr, fv |-> WithElem(f, r.v)]

unmarshalWithUnmarshalText(f, fv, p) ==
    LET g == getVal(f.source, f.name, p)
        result == makeResult(f, fv)
        r == UnmarshalText(g.val)
    IN  IF IsErr(r.err) THEN [err |-> r.err, fv |-> result]
        ELSE [err |-> NoErr, fv |-> WithElem(f, r.v)]

unmarshalWithScan_MakeResultFirst(f, fv, p) ==
    LET g == getVal(f.source, f.name, p)
        result == makeResult(f, fv)
        r == Sscan(f.kind, g.val)
    IN  IF ~g.ok THEN [err |-> NoErr, fv |-> result]
        ELSE IF IsErr(r.err) THEN [err |-> Err("cannot parse"), fv |-> result]
        ELSE [err |-> NoErr, fv |-> WithElem(f, r.v)]

unmarshalWithScan(f, fv, p) ==
    LET g == getVal(f.source, f.name, p)
        result == makeResult(f, fv)
        r == Sscan(f.kind, g.val)
    IN  IF ~g.ok THEN [err |-> NoErr, fv |-> fv]
        ELSE IF IsErr(r.err) THEN [err |-> Err("cannot parse"), fv |-> result]
        ELSE [err |-> NoErr, fv |-> WithElem(f, r.v)]

callUnmarshaler(f, fv, p) ==
    CASE f.unmarshal = "unmarshalNop" -> unmarshalNop(f, fv, p)
      [] f.unmarshal = "unmarshalBody" -> unmarshalBody(f, fv, p)
      [] f.unmarshal = "unmarshalAllField" -> unmarshalAllField(f, fv, p)
      [] f.unmarshal = "unmarshalString" -> unmarshalString(f, fv, p)
      [] f.unmarshal = "unmarshalWithUnmarshalText" -> unmarshalWithUnmarshalText(f, fv, p)
      [] OTHER -> unmarshalWithScan(f, fv, p)

(***************************************************************************)
(* unmarshal: the fields of the descriptor in order, stopping at the first *)
(* error.  steps records the fields processed and the error of each.       *)
(***************************************************************************)
\* A variant that goes on with the fields that follow a field that failed.
RECURSIVE unmarshalFrom_GoesOn(_, _, _, _, _, _)
unmarshalFrom_GoesOn(p, xv, st, pt, i, steps) ==
    IF i > Len(pt) THEN [err |-> NoErr, panic |-> FALSE, x |-> xv, steps |-> steps]
    ELSE LET f == pt[i]
             fv == FieldByIndex(xv, st, f.index)
             r == callUnmarshaler(f, fv.v, p)
             step == [index |-> f.index, err |-> r.err]
         IN  IF fv.panic
             THEN [err |-> NoErr, panic |-> TRUE, x |-> xv, steps |-> steps]
             ELSE IF IsErr(r.err)
             THEN [err |-> WithCause(Err("cannot unmarshal into field"), ErrUnmarshal),
                   panic |-> FALSE,
                   x |-> unmarshalFrom_GoesOn(p, SetByIndex(xv, st, f.index, r.fv), st, pt,
                                              i + 1, <<>>).x,
                   steps |-> Append(steps, step)]
             ELSE unmarshalFrom_GoesOn(p, SetByIndex(xv, st, f.index, r.fv), st, pt, i + 1,
                                       Append(steps, step))

RECURSIVE unmarshalFrom(_, _, _, _, _, _)
unmarshalFrom(p, xv, st, pt, i, steps) ==
    IF i > Len(pt) THEN [err |-> NoErr, panic |-> FALSE, x |-> xv, steps |-> steps]
    ELSE LET f == pt[i]
             fv == FieldByIndex(xv, st, f.index)
             r == callUnmarshaler(f, fv.v, p)
             step == [index |-> f.index, err |-> r.err]
         IN  IF fv.panic
             THEN [err |-> NoErr, panic |-> TRUE, x |-> xv, steps |-> steps]
             ELSE IF IsErr(r.err)
             THEN [err |-> WithCause(Err("cannot unmarshal into field"), ErrUnmarshal),
                   panic |-> FALSE,
                   x |-> SetByIndex(xv, st, f.index, r.fv),
                   steps |-> Append(steps, step)]
             ELSE unmarshalFrom(p, SetByIndex(xv, st, f.index, r.fv), st, pt, i + 1,
                                Append(steps, step))

unmarshal(p, xv, st, pt) == unmarshalFrom(p, xv, st, pt, 1, <<>>)

\* A variant that returns the error of getRequestType as it is.
UnmarshalResult_MasksTypeError(g, r, xv) ==
    IF IsErr(g.err)
    THEN [err |-> g.err, panic |-> FALSE,
          x |-> xv, steps |-> <<>>, cache |-> g.cache, typeErr |-> g.err]
    ELSE [err |-> r.err, panic |-> r.panic, x |-> r.x, steps |-> r.steps,
          cache |-> g.cache, typeErr |-> NoErr]

\* What Unmarshal returns when getRequestType gave g and, if that is not an
\* error, unmarshal gave r.
UnmarshalResult(g, r, xv) ==
    IF IsErr(g.err)
    THEN [err |-> WithCause(Err("bad type"), ErrBadUnmarshalType), panic |-> FALSE,
          x |-> xv, steps |-> <<>>, cache |-> g.cache, typeErr |-> g.err]
    ELSE [err |-> r.err, panic |-> r.panic, x |-> r.x, steps |-> r.steps,
          cache |-> g.cache, typeErr |-> NoErr]

UnmarshalWithType(g, p, t, xv) == UnmarshalResult(g, unmarshal(p, xv, t.fields, g.pt), xv)

\* Unmarshal(p, x) for x of type t holding xv, with the given cache.
Unmarshal(cache, p, t, xv) == UnmarshalWithType(getRequestType(cache, t), p, t, xv)

(***************************************************************************)
(* Marshal.  The request under construction is [method, path, form,        *)
(* pathVar, body]: form maps a name to the values added for it, pathVar is *)
(* a sequence of [Key, Value], body is the JSON text written (JEmpty when  *)
(* nothing was).                                                           *)
(***************************************************************************)
\* formSetters[sourceForm]: p.Form.Add(name, value)
formAdd(name, value, p) ==
    [p EXCEPT !.form = Put(p.form, name,
                           (IF name \in DOMAIN p.form THEN p.form[name] ELSE <<>>)
                               \o <<value>>)]

\* formSetters[sourcePath]
pathAppend(name, value, p) ==
    [p EXCEPT !.pathVar = Append(p.pathVar, [Key |-> name, Value |-> value])]

formSet(source, name, value, p) ==
    IF source = sourceForm THEN formAdd(name, value, p) ELSE pathAppend(name, value, p)

\* dereferenceIfPointer(v) == emptyValue
IsEmptyValue(f, fv) == f.makeResult = "makePointerResult" /\ fv = <<>>

\* testMarshaler.MarshalText
MarshalText(t) ==
    IF Len(t) = 0 THEN [err |-> Err("empty string"), data |-> <<>>]
    ELSE [err |-> NoErr, data |-> <<"t", "e", "s", "t", "_">> \o t]

\* fmt.Sprint of an int.
RECURSIVE SprintNat(_)
SprintNat(n) ==
    IF n < 10 THEN <<Digits[n + 1]>> ELSE Append(SprintNat(n \div 10), Digits[(n % 10) + 1])

Sprint(n) == IF n < 0 THEN <<"-">> \o SprintNat(0 - n) ELSE SprintNat(n)

\* The marshalers.  Each gives the error it returns, the field as it
\* leaves it and the request as it leaves it.
marshalNop(f, fv, p) == [err |-> NoErr, fv |-> fv, p |-> p]

marshalBody(f, fv, p) ==
    IF IsEmptyValue(f, fv) THEN [err |-> NoErr, fv |-> fv, p |-> p]
    ELSE IF p.method # "POST" /\ p.method # "PUT"
    THEN [err |-> Err("trying to marshal to body of a request with method"), fv |-> fv, p |-> p]
    ELSE LET r == jsonMarshal(f.kind, Elem(f, fv))
         IN  IF IsErr(r.err) THEN [err |-> Err("cannot marshal request body"), fv |-> fv, p |-> p]
             ELSE [err |-> NoErr, fv |-> fv, p |-> [p EXCEPT !.body = r.data]]

RECURSIVE addAll(_, _, _)
addAll(name, values, p) ==
    IF values = <<>> THEN p ELSE addAll(name, Tail(values), formAdd(name, Head(values), p))

marshalAllField(f, fv, p) ==
    IF IsEmptyValue(f, fv) THEN [err |-> NoErr, fv |-> fv, p |-> p]
    ELSE [err |-> NoErr, fv |-> fv, p |-> addAll(f.name, Elem(f, fv), p)]

\* A variant that gives a nil pointer a new value and marshals that.
marshalString_Allocates(f, fv, p) ==
    [err |-> NoErr, fv |-> makeResult(f, fv),
     p |-> formSet(f.source, f.name, Elem(f, makeResult(f, fv)), p)]

marshalString(f, fv, p) ==
    IF IsEmptyValue(f, fv) THEN [err |-> NoErr, fv |-> fv, p |-> p]
    ELSE [err |-> NoErr, fv |-> fv, p |-> formSet(f.source, f.name, Elem(f, fv), p)]

marshalWithMarshalText(f, fv, p) ==
    IF IsEmptyValue(f, fv) THEN [err |-> NoErr, fv |-> fv, p |-> p]
    ELSE LET r == MarshalText(Elem(f, fv))
         IN  IF IsErr(r.err) THEN [err |-> r.err, fv |-> fv, p |-> p]
             ELSE [err |-> NoErr, fv |-> fv, p |-> formSet(f.source, f.name, r.data, p)]

marshalWithSprint(f, fv, p) ==
    IF IsEmptyValue(f, fv) THEN [err |-> NoErr, fv |-> fv, p |-> p]
    ELSE [err |-> NoErr, fv |-> fv, p |-> formSet(f.source, f.name, Sprint(Elem(f, fv)), p)]

callMarshaler(f, fv, p) ==
    CASE f.marshal = "marshalNop" -> marshalNop(f, fv, p)
      [] f.marshal = "marshalBody" -> marshalBody(f, fv, p)
      [] f.marshal = "marshalAllField" -> marshalAllField(f, fv, p)
      [] f.marshal = "marshalString" -> marshalString(f, fv, p)
      [] f.marshal = "marshalWithMarshalText" -> marshalWithMarshalText(f, fv, p)
      [] OTHER -> marshalWithSprint(f, fv, p)

\* The loop of marshal over the fields of the descriptor.
RECURSIVE marshalFields(_, _, _, _, _)
marshalFields(p, xv, st, pt, i) ==
    IF i > Len(pt) THEN [err |-> NoErr, panic |-> FALSE, p |-> p, x |-> xv]
    ELSE LET f == pt[i]
             fv == FieldByIndex(xv, st, f.index)
             r == callMarshaler(f, fv.v, p)
         IN  IF fv.panic THEN [err |-> NoErr, panic |-> TRUE, p |-> p, x |-> xv]
             ELSE IF IsErr(r.err)
             THEN [err |-> WithCause(Err("cannot marshal field"), ErrUnmarshal),
                   panic |-> FALSE, p |-> p, x |-> SetByIndex(xv, st, f.index, r.fv)]
             ELSE marshalFields(r.p, SetByIndex(xv, st, f.index, r.fv), st, pt, i + 1)

ParamValue_EmptyWhenMissing(pathVar, name) ==
    LET hits == {i \in 1..Len(pathVar) : pathVar[i].Key = name}
    IN  IF hits = {} THEN [ok |-> TRUE, val |-> <<>>]
        ELSE [ok |-> TRUE, val |-> pathVar[CHOOSE i \in hits : \A k \in hits : k <= i].Value]

\* The value the last path variable of the given name holds (paramsByName).
ParamValue(pathVar, name) ==
    LET hits == {i \in 1..Len(pathVar) : pathVar[i].Key = name}
    IN  IF hits = {} THEN [ok |-> FALSE, val |-> <<>>]
        ELSE [ok |-> TRUE, val |-> pathVar[CHOOSE i \in hits : \A k \in hits : k <= i].Value]

\* s[lo:hi], with indexes counted from 0 as the code counts them.
Slice(s, lo, hi) == SubSeq(s, lo + 1, hi)

\* The end of the placeholder that starts before position end.
RECURSIVE scanEnd(_, _)
scanEnd(path, end) ==
    IF end < Len(path) /\ path[end + 1] # ":" /\ path[end + 1] # "/"
    THEN scanEnd(path, end + 1)
    ELSE end

RECURSIVE substitute_StarAnywhere(_, _, _, _, _, _)
substitute_StarAnywhere(path, pathVar, i, offset, hasParams, pathBuffer) ==
    IF i >= Len(path)
    THEN [err |-> NoErr, panic |-> FALSE,
          path |-> IF hasParams THEN pathBuffer ELSE pathBuffer \o path]
    ELSE LET c == path[i + 1]
             end == scanEnd(path, i + 1)
             wildcard == Slice(path, i + 1, end)
             param == ParamValue(pathVar, wildcard)
             fail(err) == [err |-> err, panic |-> FALSE, path |-> <<>>]
         IN  IF c # ":" /\ c # "*"
             THEN substitute_StarAnywhere(path, pathVar, i + 1, offset, hasParams,
                                          pathBuffer)
             ELSE IF end - i < 2
             THEN fail(Err("request wildcards must be named with a non-empty name"))
             ELSE IF i > 0 /\ offset > i
             THEN [err |-> NoErr, panic |-> TRUE, path |-> <<>>]
             ELSE IF ~param.ok
             THEN fail(ErrNamed("missing value for path parameter", wildcard))
             ELSE substitute_StarAnywhere(path, pathVar, i + 1, end, TRUE,
                                          (IF i > 0 THEN pathBuffer \o Slice(path, offset, i)
                                           ELSE pathBuffer) \o param.val)

\* The loop of marshal over the characters of the URL path, from position i,
\* and the path it leaves.  path[offset:i] panics when offset > i.
RECURSIVE substitute(_, _, _, _, _, _)
substitute(path, pathVar, i, offset, hasParams, pathBuffer) ==
    IF i >= Len(path)
    THEN [err |-> NoErr, panic |-> FALSE,
          path |-> IF hasParams THEN pathBuffer ELSE pathBuffer \o path]
    ELSE LET c == path[i + 1]
             end == scanEnd(path, i + 1)
             wildcard == Slice(path, i + 1, end)
             param == ParamValue(pathVar, wildcard)
             fail(err) == [err |-> err, panic |-> FALSE, path |-> <<>>]
         IN  IF c # ":" /\ c # "*"
             THEN substitute(path, pathVar, i + 1, offset, hasParams, pathBuffer)
             ELSE IF c = "*" /\ end # Len(path)
             THEN fail(Err("placeholders starting with * are only allowed at the end"))
             ELSE IF end - i < 2
             THEN fail(Err("request wildcards must be named with a non-empty name"))
             ELSE IF i > 0 /\ offset > i
             THEN [err |-> NoErr, panic |-> TRUE, path |-> <<>>]
             ELSE IF ~param.ok
             THEN fail(ErrNamed("missing value for path parameter", wildcard))
             ELSE substitute(path, pathVar, i + 1, end, TRUE,
                             (IF i > 0 THEN pathBuffer \o Slice(path, offset, i)
                              ELSE pathBuffer) \o param.val)

\* The byte of a character, for the characters that names are made of.
ByteOf(c) ==
    CASE c = "F" -> 70 [] c = "G" -> 71 [] c = "S" -> 83
      [] c = "a" -> 97 [] c = "b" -> 98 [] OTHER -> 0

\* s < t for strings, byte by byte.
RECURSIVE StringLess(_, _)
StringLess(s, t) ==
    IF s = <<>> \/ t = <<>> THEN Len(s) < Len(t)
    ELSE IF Head(s) # Head(t) THEN ByteOf(Head(s)) < ByteOf(Head(t))
    ELSE StringLess(Tail(s), Tail(t))

\* url.QueryEscape
RECURSIVE QueryEscape(_)
QueryEscape(s) ==
    IF s = <<>> THEN <<>>
    ELSE (CASE Head(s) = "/" -> <<"%", "2", "F">>
            [] Head(s) = ":" -> <<"%", "3", "A">>
            [] Head(s) = "*" -> <<"%", "2", "A">>
            [] Head(s) = "!" -> <<"%", "2", "1">>
            [] OTHER -> <<Head(s)>>) \o QueryEscape(Tail(s))

\* url.Values.Encode: the names in sorted order, each with its values in
\* the order they were added, as a sequence of [Key, Value].
RECURSIVE Encode(_)
Encode(form) ==
    IF DOMAIN form = {} THEN <<>>
    ELSE LET k == CHOOSE n \in DOMAIN form : \A m \in DOMAIN form \ {n} : StringLess(n, m)
             rest == [n \in DOMAIN form \ {k} |-> form[n]]
         IN  [i \in 1..Len(form[k]) |-> [Key |-> QueryEscape(k), Value |-> QueryEscape(form[k][i])]]
                 \o Encode(rest)

\* &Params{Request: req} for the req that http.NewRequest(method, baseURL,
\* bytes.NewBuffer(nil)) makes of a base URL "http://host" followed by the
\* given path.
NewParams(method, path) ==
    [method |-> method, path |-> path, rawQuery |-> <<>>, form |-> EmptyMap,
     pathVar |-> <<>>, body |-> JEmpty]

\* p.Request
RequestOf(p) ==
    [method |-> p.method, path |-> p.path, rawQuery |-> p.rawQuery, form |-> p.form,
     body |-> p.body]

\* What marshal returns when the loop over the fields gave r and, if that
\* is not an error, the loop over the path gave s.
marshalResult(r, s) ==
    IF r.panic \/ IsErr(r.err) THEN r
    ELSE IF s.panic \/ IsErr(s.err)
    THEN [err |-> s.err, panic |-> s.panic, p |-> r.p, x |-> r.x]
    ELSE [err |-> NoErr, panic |-> FALSE,
          p |-> [r.p EXCEPT !.path = s.path, !.rawQuery = Encode(r.p.form)], x |-> r.x]

marshalPath(r) == marshalResult(r, substitute(r.p.path, r.p.pathVar, 0, 0, FALSE, <<>>))

\* marshal(p, xv, pt)
marshal(p, xv, st, pt) == marshalPath(marshalFields(p, xv, st, pt, 1))

\* A nil *http.Request; a request r is <<r>>.
NoRequest == <<>>

\* Marshal(baseURL, method, &xv) for xv of type t, with the given cache.
\* pathVar is what the fields added to p.PathVar, which the caller of
\* Marshal does not get.
MarshalResult(g, r) ==
    IF IsErr(g.err)
    THEN [err |-> WithCause(Err("bad type"), ErrBadUnmarshalType), panic |-> FALSE,
          req |-> NoRequest, pathVar |-> <<>>, cache |-> g.cache, x |-> r.x]
    ELSE IF r.panic
    THEN [err |-> NoErr, panic |-> TRUE, req |-> NoRequest, pathVar |-> <<>>,
          cache |-> g.cache, x |-> r.x]
    ELSE IF IsErr(r.err)
    THEN [err |-> r.err, panic |-> FALSE, req |-> NoRequest, pathVar |-> r.p.pathVar,
          cache |-> g.cache, x |-> r.x]
    ELSE [err |-> NoErr, panic |-> FALSE, req |-> <<RequestOf(r.p)>>,
          pathVar |-> r.p.pathVar, cache |-> g.cache, x |-> r.x]

MarshalWithType(g, path, method, t, xv) ==
    MarshalResult(g, marshal(NewParams(method, path), xv, t.fields, g.pt))

Marshal(cache, path, method, t, xv) ==
    MarshalWithType(getRequestType(cache, t), path, method, t, xv)

(***************************************************************************)
(* The inputs of the model.                                                *)
(***************************************************************************)
Sample(kind) ==
    CASE kind = "int" -> 5
      [] kind = "map" -> [isNil |-> FALSE, kv |-> [k \in {"k"} |-> 5]]
      [] kind = "embedded" -> [F1 |-> <<"o">>, F2 |-> 5, F3 |-> << <<"o">> >>]
      [] kind = "SFG" -> <<5, 5>>
      [] kind = "P" -> << << <<5, 5>> >> >>
      [] kind = "strings" -> << <<"o">> >>
      [] OTHER -> <<"o">>

\* The struct values a caller passes to Unmarshal: a new one, or one that
\* already holds something in every field.
ZeroAndFull(st) ==
    { ZeroStruct(st),
      [i \in 1..Len(st) |-> IF st[i].ptr THEN <<Sample(st[i].kind)>> ELSE Sample(st[i].kind)] }

FormsOf(name, vals) == {EmptyMap} \cup {[n \in {name} |-> v] : v \in vals}
Merge(f, g) == [n \in DOMAIN f \cup DOMAIN g |-> IF n \in DOMAIN f THEN f[n] ELSE g[n]]

Forms ==
    {Merge(fa, fb) : fa \in FormsOf(<<"a">>, { << <<"x">>, <<"1">> >> }),
                     fb \in FormsOf(<<"b">>, { << <<"1">> >>, << <<"x">> >> })}

PathVars ==
    { <<>>,
      << [Key |-> <<"a">>, Value |-> <<"t">>], [Key |-> <<"a">>, Value |-> <<"x">>] >> }

Bodies ==
    {[readOK |-> FALSE, data |-> JEmpty]} \cup
    {[readOK |-> TRUE, data |-> d] :
        d \in {JInvalid, JNull, JStr(<<"h">>),
               JObj([k \in {"name", "age"} |-> IF k = "name" THEN JStr(<<"n">>) ELSE JNum(7)]),
               JObj([k \in {"k"} |-> JNum(9)])}}

Requests == [form : Forms, pathVar : PathVars, body : Bodies]

(***************************************************************************)
(* The program: it defines one request type, typ, and calls the library    *)
(* with values of it.  call holds the call in progress and its outcome.    *)
(***************************************************************************)
Idle == [op |-> "idle"]

\* The types whose values the program unmarshals into.
UnmarshalTypes ==
    {t \in Types : Len(t.fields) <= MaxCallFields}
        \cup {PtrTo(MkStruct(<< Decl(<<"a">>, <<"path">>, "text", TRUE) >>)),
              PtrTo(MkStruct(<< Decl(<<"a">>, <<"path">>, "string", FALSE),
                                Decl(<<"b">>, <<"form">>, "int", FALSE),
                                Decl(<<>>, <<"body">>, "string", FALSE) >>))}

InitType ==
    /\ typ \in Types
    /\ typeMap = EmptyMap
    /\ handler = NoHandler
    /\ call = Idle

InitUnmarshal ==
    /\ typ \in UnmarshalTypes
    /\ typeMap = EmptyMap
    /\ handler = NoHandler
    /\ call = Idle

\* getRequestType(typ), as Unmarshal, Marshal and checkHandleType call it.
GetRequestTypeCall ==
    /\ call.op = "idle"
    /\ \E r \in {getRequestType(typeMap, typ)} :
           /\ call' = [op |-> "getRequestType", err |-> r.err, pt |-> r.pt]
           /\ typeMap' = r.cache
    /\ UNCHANGED <<typ, handler>>

\* httprequest.Unmarshal(p, &x0)
UnmarshalCall ==
    /\ call.op = "idle"
    /\ \E p \in Requests, x0 \in ZeroAndFull(typ.fields) :
          \E r \in {Unmarshal(typeMap, p, typ, x0)} :
              /\ call' = [op |-> "Unmarshal", p |-> p, x0 |-> x0, x |-> r.x,
                          err |-> r.err, panic |-> r.panic, steps |-> r.steps,
                          typeErr |-> r.typeErr]
              /\ typeMap' = r.cache
    /\ UNCHANGED <<typ, handler>>

\* The caller takes the outcome of the call.
Return ==
    /\ call.op # "idle"
    /\ call' = Idle
    /\ UNCHANGED <<typ, typeMap, handler>>

NextType == GetRequestTypeCall \/ Return

SpecType == InitType /\ [][NextType]_vars

(***************************************************************************)
(* The program that builds the descriptors of the tagged types: a struct   *)
(* of one field whose tag has one source keyword, or none.                 *)
(***************************************************************************)
TagKeywords == {"path", "form", "header", "body", "xxx"}

TagTypes ==
    {PtrTo(MkStruct(<< Decl(n, fl, k, ptr) >>)) :
        n \in {<<>>, <<"x">>},
        fl \in {<<>>} \cup {<<kw>> : kw \in TagKeywords},
        k \in {"string", "int", "strings"},
        ptr \in BOOLEAN}

InitTag ==
    /\ typ \in TagTypes
    /\ typeMap = EmptyMap
    /\ handler = NoHandler
    /\ call = Idle

SpecTag == InitTag /\ [][NextType]_vars

(***************************************************************************)
(* The program that lists the fields of struct types with embedded         *)
(* members, as TestFields does.                                            *)
(***************************************************************************)
\* The members the struct types are made of: the embedded structs of the
\* tests, an embedded map, and fields named as the fields of the embedded
\* structs are.
MemberDecls ==
    { Embed(<<"S", "F", "G">>, "SFG"),
      [Embed(<<"S", "F">>, "SF") EXCEPT !.ptr = TRUE],
      Embed(<<"S", "G">>, "SG"),
      Embed(<<"S", "F", "G", "1">>, "SFG1"),
      Embed(<<"S", "F", "1">>, "SF1"),
      Embed(<<"S", "G", "1">>, "SG1"),
      Embed(<<"M">>, "map"),
      Named(Decl(<<>>, <<>>, "int", FALSE), <<"F">>),
      Named(Decl(<<>>, <<>>, "int", FALSE), <<"G">>) }

MemberTypes ==
    {[kind |-> "struct", elem |-> "", fields |-> st] :
        st \in {ds \in SeqsUpTo(MemberDecls, MaxFields) : DistinctNames(ds)}}

InitFields ==
    /\ typ \in MemberTypes
    /\ typeMap = EmptyMap
    /\ handler = NoHandler
    /\ call = Idle

\* fields(reflect.TypeOf(test.val))
FieldsCall ==
    /\ call.op = "idle"
    /\ \E got \in {fields(typ.fields)} :
           call' = [op |-> "fields", got |-> got]
    /\ UNCHANGED <<typ, typeMap, handler>>

NextFields == FieldsCall \/ Return

SpecFields == InitFields /\ [][NextFields]_vars

NextUnmarshal == UnmarshalCall \/ Return

\* type P struct { *SFG }, embedded by pointer.
EmbedP == [Embed(<<"P">>, "P") EXCEPT !.ptr = TRUE]

\* The types with embedded pointers the program unmarshals into: *SFG
\* itself, *P that embeds it in turn, and *P beside a field that is itself
\* called SFG.
EmbeddedTypes ==
    { PtrTo(<< StructFieldsOf("P")[1] >>),
      PtrTo(<< Named(Decl(<<"b">>, <<"form">>, "int", TRUE), <<"A">>),
               StructFieldsOf("P")[1],
               Named(Decl(<<"a">>, <<"path">>, "string", FALSE), <<"C">>) >>),
      PtrTo(<< EmbedP >>),
      PtrTo(<< Named(Decl(<<"b">>, <<"form">>, "int", FALSE), <<"S", "F", "G">>),
               EmbedP >>) }

InitEmbedded ==
    /\ typ \in EmbeddedTypes
    /\ typeMap = EmptyMap
    /\ handler = NoHandler
    /\ call = Idle

SpecEmbedded == InitEmbedded /\ [][NextUnmarshal]_vars

SpecUnmarshal == InitUnmarshal /\ [][NextUnmarshal]_vars

(***************************************************************************)
(* The program that marshals: its request type is one of MarshalTypes, and *)
(* it marshals values of it, unmarshals requests into it, and unmarshals   *)
(* the requests that Marshal built.                                        *)
(***************************************************************************)
Anon(d, name) == [d EXCEPT !.anon = TRUE, !.name = name]

MarshalTypes ==
    {PtrTo(MkStruct(ds)) : ds \in
        { <<>>,
          << Decl(<<"a">>, <<"path">>, "string", FALSE) >>,
          << Decl(<<"a">>, <<"path">>, "string", TRUE) >>,
          << Decl(<<>>, <<"body">>, "string", FALSE) >>,
          << Decl(<<>>, <<"body">>, "embedded", TRUE) >>,
          << Decl(<<>>, <<"body">>, "map", FALSE) >>,
          << Decl(<<>>, <<"body">>, "chan", FALSE) >>,
          << Decl(<<>>, <<>>, "string", FALSE), Decl(<<>>, <<>>, "int", TRUE) >>,
          << Decl(<<"a">>, <<>>, "int", TRUE), Decl(<<"a">>, <<"path">>, "string", FALSE) >>,
          << Anon(Decl(<<>>, <<>>, "SFG", TRUE), <<"S", "F", "G">>),
             Decl(<<>>, <<"body">>, "string", FALSE) >>,
          << Decl(<<"a">>, <<"form">>, "text", FALSE),
             Decl(<<"a">>, <<"path">>, "string", FALSE) >>,
          << Decl(<<"a">>, <<"path">>, "text", FALSE),
             Decl(<<>>, <<"body">>, "string", FALSE) >>,
          << Decl(<<"a">>, <<"path">>, "string", FALSE),
             Decl(<<>>, <<"body">>, "embedded", TRUE) >>,
          << Decl(<<"b">>, <<"form">>, "int", TRUE),
             Decl(<<"b">>, <<"form">>, "strings", FALSE) >>,
          << Decl(<<"a">>, <<"path">>, "string", FALSE),
             Decl(<<"a">>, <<"path">>, "string", TRUE) >> }}

\* The values of a kind that the program marshals.
ValuesOfKind(kind) ==
    CASE kind = "string" -> {<<>>, <<"o">>, <<"/", "o">>}
      [] kind = "text" -> {<<>>, <<"o">>}
      [] kind = "int" -> {0, 12}
      [] kind = "strings" -> {<<>>, << <<"o">>, <<"x">> >>}
      [] kind = "chan" -> {<<>>}
      [] OTHER -> {Zero(kind), Sample(kind)}

ValuesOfField(d) ==
    IF d.ptr THEN {<<>>} \cup {<<v>> : v \in ValuesOfKind(d.kind)} ELSE ValuesOfKind(d.kind)

\* The struct values made of them, from field i on.
RECURSIVE ValuesFrom(_, _)
ValuesFrom(st, i) ==
    IF i > Len(st) THEN {<<>>}
    ELSE {<<v>> \o rest : v \in ValuesOfField(st[i]), rest \in ValuesFrom(st, i + 1)}

ValuesOf(st) == ValuesFrom(st, 1)

\* The URL paths: "/" followed by up to MaxPathLen characters.
PathChars == {"/", ":", "*", "a"}
Paths == {<<"/">> \o s : s \in SeqsUpTo(PathChars, MaxPathLen)}

Methods == {"GET", "POST", "PUT", "DELETE"}

InitCodec ==
    /\ typ \in MarshalTypes \cup NonPtrTypes
    /\ typeMap = EmptyMap
    /\ handler = NoHandler
    /\ call = Idle

\* httprequest.Marshal("http://host" + path, method, &x)
MarshalCall ==
    /\ call.op = "idle"
    /\ \E path \in Paths, method \in Methods, x \in ValuesOf(typ.fields) :
          \E r \in {Marshal(typeMap, path, method, typ, x)} :
              /\ call' = [op |-> "Marshal", path |-> path, method |-> method, x |-> x,
                          err |-> r.err, panic |-> r.panic, req |-> r.req,
                          pathVar |-> r.pathVar, xAfter |-> r.x]
              /\ typeMap' = r.cache
    /\ UNCHANGED <<typ, handler>>

\* httprequest.Unmarshal(httprequest.Params{Request: req}, &y) for the req
\* that Marshal returned and a new y.
UnmarshalRequest ==
    /\ call.op = "Marshal"
    /\ call.req # NoRequest
    /\ \E r \in {Unmarshal(typeMap,
                           [form |-> call.req[1].form, pathVar |-> <<>>,
                            body |-> [readOK |-> TRUE, data |-> call.req[1].body]],
                           typ, ZeroStruct(typ.fields))} :
           /\ call' = [op |-> "RoundTrip", x |-> call.x, method |-> call.method,
                       y |-> r.x, err |-> r.err, panic |-> r.panic, steps |-> r.steps]
           /\ typeMap' = r.cache
    /\ UNCHANGED <<typ, handler>>

NextCodec == MarshalCall \/ UnmarshalRequest \/ UnmarshalCall \/ Return

SpecCodec == InitCodec /\ [][NextCodec]_vars

(***************************************************************************)
(* The handler adapter.  A response writer is [header, code, body, calls]: *)
(* code is 0 until the status line is written, body holds the texts        *)
(* written and calls the WriteHeader and Write calls that reached it.      *)
(***************************************************************************)
StatusOK == 200
StatusCreated == 201
StatusBadRequest == 400
StatusUnauthorized == 401
StatusInternalServerError == 500

\* httptest.NewRecorder()
NewRecorder == [header |-> EmptyMap, code |-> 0, body |-> <<>>, calls |-> <<>>]

\* w.Header().Set(key, value)
SetHeader(w, key, value) == [w EXCEPT !.header = Put(w.header, key, value)]

\* w.WriteHeader(code): only the first status counts.
WriteHeader(w, code) ==
    [w EXCEPT !.code = IF w.code = 0 THEN code ELSE w.code,
              !.calls = Append(w.calls, [op |-> "WriteHeader", code |-> code, data |-> JEmpty])]

\* w.Write(data): writes the status StatusOK first if none was written.
Write(w, data) ==
    [w EXCEPT !.code = IF w.code = 0 THEN StatusOK ELSE w.code,
              !.body = Append(w.body, data),
              !.calls = Append(w.calls, [op |-> "Write", code |-> 0, data |-> data])]

\* w.(http.Flusher).Flush(): sends the status StatusOK if none was written.
Flush(w) ==
    [w EXCEPT !.code = IF w.code = 0 THEN StatusOK ELSE w.code,
              !.calls = Append(w.calls, [op |-> "Flush", code |-> 0, data |-> JEmpty])]

\* A variant that sets the header and the status before it looks at the
\* error of json.Marshal.
WriteJSONResult_StatusFirst(w, code, r) ==
    IF IsErr(r.err)
    THEN [err |-> r.err,
          w |-> WriteHeader(SetHeader(w, "content-type", "application/json"), code)]
    ELSE [err |-> NoErr,
          w |-> Write(WriteHeader(SetHeader(w, "content-type", "application/json"), code),
                      r.data)]

\* WriteJSON(w, code, val) for val of the given kind.
WriteJSONResult(w, code, r) ==
    IF IsErr(r.err) THEN [err |-> r.err, w |-> w]
    ELSE [err |-> NoErr,
          w |-> Write(WriteHeader(SetHeader(w, "content-type", "application/json"), code),
                      r.data)]

WriteJSON(w, code, kind, val) == WriteJSONResult(w, code, jsonMarshal(kind, val))

\* errgo.Cause(err)
Cause(err) == IF err.cause # "" THEN err.cause ELSE err.kind

errUnauth == Err("unauth")
errBadReq == Err("bad request")
errOther == Err("other")
errNil == Err("nil result")

\* The ErrorMapper the handlers are made with: a status and a body for err.
errorMapper(err) ==
    IF Cause(err) = errNil.kind
    THEN [status |-> StatusInternalServerError, kind |-> "nil", val |-> [Message |-> <<>>]]
    ELSE [status |-> CASE Cause(err) = errUnauth.kind -> StatusUnauthorized
                       [] Cause(err) \in {errBadReq.kind, ErrUnmarshal} -> StatusBadRequest
                       [] OTHER -> StatusInternalServerError,
          kind |-> "errorResponse",
          val |-> [Message |-> <<err.kind>>]]

\* The state of one run of a handler: s.w is the response writer,
\* s.mapped the errors given to the ErrorMapper so far, s.fnCalls the
\* number of calls of the handler function, and s.out what it returned.
WriteErrorMapped(s, err, m) ==
    [s EXCEPT !.mapped = Append(s.mapped, err),
              !.w = WriteJSON(s.w, m.status, m.kind, m.val).w]

\* e.WriteError(w, err)
WriteError(s, err) == WriteErrorMapped(s, err, errorMapper(err))

(***************************************************************************)
(* Handler functions.  A function type is [kind, in, out]: in the types of *)
(* its arguments and out the names of the types of its results.            *)
(***************************************************************************)
\* reflect.TypeOf(Params{})
paramsType == [kind |-> "struct", elem |-> "Params", fields |-> <<>>]
errorType == "error"

FuncType(in, out) == [kind |-> "func", in |-> in, out |-> out]
NumIn(ft) == Len(ft.in)
NumOut(ft) == Len(ft.out)

\* A variant that does not look at the type of the final result.
checkHandleTypeResult_AnyFinalResult(ft, g) ==
    IF IsErr(g.err)
    THEN [err |-> Err("last argument cannot be used for Unmarshal"), pt |-> NoType,
          cache |-> g.cache]
    ELSE [err |-> NoErr, pt |-> g.pt, cache |-> g.cache]

\* The end of checkHandleType, from the result g of getRequestType.
checkHandleTypeResult(ft, g) ==
    IF IsErr(g.err)
    THEN [err |-> Err("last argument cannot be used for Unmarshal"), pt |-> NoType,
          cache |-> g.cache]
    ELSE IF NumOut(ft) > 0 /\ ft.out[NumOut(ft)] # errorType
    THEN [err |-> Err("final result parameter is not error"), pt |-> NoType,
          cache |-> g.cache]
    ELSE [err |-> NoErr, pt |-> g.pt, cache |-> g.cache]

checkHandleType(cache, ft) ==
    LET bad(msg) == [err |-> Err(msg), pt |-> NoType, cache |-> cache]
    IN  IF ft.kind # "func" THEN bad("not a function")
        ELSE IF NumIn(ft) # 1 /\ NumIn(ft) # 2 THEN bad("need 1 or 2 parameters")
        ELSE IF NumOut(ft) > 2 THEN bad("need 0, 1 or 2 result parameters")
        ELSE IF NumIn(ft) = 2 /\ ft.in[1] # paramsType
        THEN bad("first argument is not httprequest.Params")
        ELSE IF NumIn(ft) = 1 /\ ft.in[1] = paramsType
        THEN bad("no argument parameter after Params argument")
        ELSE checkHandleTypeResult(ft, getRequestType(cache, ft.in[NumIn(ft)]))

\* e.Handle(f) for f of type ft: the handler made, or the panic.
HandleResult(ft, c) ==
    [state |-> IF IsErr(c.err) THEN "panic" ELSE "made", ft |-> ft, pt |-> c.pt,
     err |-> c.err, cache |-> c.cache]

Handle(cache, ft) == HandleResult(ft, checkHandleType(cache, ft))

(***************************************************************************)
(* Serving a request [rawQuery, pathVar, body].                            *)
(***************************************************************************)
HexDigits ==
    {"0", "1", "2", "3", "4", "5", "6", "7", "8", "9",
     "A", "B", "C", "D", "E", "F", "a", "b", "c", "d", "e", "f"}

\* The character that %xy stands for, for the characters QueryEscape escapes.
Unhex(x, y) ==
    CASE <<x, y>> = <<"2", "F">> -> "/"
      [] <<x, y>> = <<"3", "A">> -> ":"
      [] <<x, y>> = <<"2", "A">> -> "*"
      [] <<x, y>> = <<"2", "1">> -> "!"
      [] OTHER -> "?"

\* url.QueryUnescape
RECURSIVE QueryUnescape(_)
QueryUnescape(s) ==
    IF s = <<>> THEN [err |-> NoErr, s |-> <<>>]
    ELSE IF Head(s) = "%"
    THEN IF Len(s) < 3 \/ s[2] \notin HexDigits \/ s[3] \notin HexDigits
         THEN [err |-> Err("invalid URL escape"), s |-> <<>>]
         ELSE [err |-> QueryUnescape(SubSeq(s, 4, Len(s))).err,
               s |-> <<Unhex(s[2], s[3])>> \o QueryUnescape(SubSeq(s, 4, Len(s))).s]
    ELSE [err |-> QueryUnescape(Tail(s)).err,
          s |-> <<IF Head(s) = "+" THEN " " ELSE Head(s)>> \o QueryUnescape(Tail(s)).s]

\* url.ParseQuery: a pair that cannot be unescaped is left out, and the
\* first such error is the one returned.
RECURSIVE parseQuery(_, _, _)
parseQuery(q, i, r) ==
    IF i > Len(q) THEN r
    ELSE IF IsErr(QueryUnescape(q[i].Key).err)
    THEN parseQuery(q, i + 1,
                    [r EXCEPT !.err = IF IsErr(r.err) THEN r.err
                                      ELSE QueryUnescape(q[i].Key).err])
    ELSE IF IsErr(QueryUnescape(q[i].Value).err)
    THEN parseQuery(q, i + 1,
                    [r EXCEPT !.err = IF IsErr(r.err) THEN r.err
                                      ELSE QueryUnescape(q[i].Value).err])
    ELSE parseQuery(q, i + 1,
                    formAdd(QueryUnescape(q[i].Key).s, QueryUnescape(q[i].Value).s, r))

\* req.ParseForm()
ParseForm(req) == parseQuery(req.rawQuery, 1, [err |-> NoErr, form |-> EmptyMap])

\* What the handler function does to the response writer it is given, when
\* that is the headerOnlyResponseWriter and when it is the writer itself.
\* A variant in which the headerOnlyResponseWriter passes everything on.
ApplyWrite_PassesOn(w, o, headerOnly) ==
    CASE o.op = "SetHeader" -> SetHeader(w, o.key, "f")
      [] o.op = "WriteHeader" -> WriteHeader(w, o.code)
      [] o.op = "Flush" -> Flush(w)
      [] OTHER -> Write(w, o.data)

ApplyWrite(w, o, headerOnly) ==
    CASE o.op = "SetHeader" -> SetHeader(w, o.key, "f")
      [] headerOnly -> w
      [] o.op = "WriteHeader" -> WriteHeader(w, o.code)
      [] o.op = "Flush" -> Flush(w)
      [] OTHER -> Write(w, o.data)

RECURSIVE ApplyWrites(_, _, _)
ApplyWrites(w, os, headerOnly) ==
    IF os = <<>> THEN w
    ELSE ApplyWrites(ApplyWrite(w, Head(os), headerOnly), Tail(os), headerOnly)

\* The errors that the calls of Write among os return to the function.
RECURSIVE WriteErrors(_, _)
WriteErrors(os, headerOnly) ==
    IF os = <<>> THEN <<>>
    ELSE (IF Head(os).op # "Write" THEN <<>>
          ELSE IF headerOnly
          THEN <<Err("inappropriate call to ResponseWriter.Write in JSON-returning handler")>>
          ELSE <<NoErr>>) \o WriteErrors(Tail(os), headerOnly)

\* The state of a run before anything happened.
NewRun ==
    [w |-> NewRecorder, mapped |-> <<>>, fnCalls |-> 0, err |-> NoErr, panic |-> FALSE,
     out |-> [val |-> 0, err |-> NoErr], writeErrs |-> <<>>]

\* fv.Call: the function runs, behaving as b says.
Call(ft, b, s) ==
    [s EXCEPT !.fnCalls = s.fnCalls + 1,
              !.out = [val |-> b.val, err |-> b.err],
              !.w = IF ft.in[1] = paramsType
                    THEN ApplyWrites(s.w, b.writes, NumOut(ft) > 1)
                    ELSE s.w,
              !.writeErrs = IF ft.in[1] = paramsType
                            THEN WriteErrors(b.writes, NumOut(ft) > 1)
                            ELSE <<>>]

\* A variant that calls the function whatever unmarshal returned.
handleParamsUnmarshaled_CallsAnyway(ft, b, s, u) ==
    IF u.panic THEN [s EXCEPT !.panic = TRUE] ELSE Call(ft, b, s)

\* The closure handleParams returns, from the result u of unmarshal.
handleParamsUnmarshaled(ft, b, s, u) ==
    IF u.panic THEN [s EXCEPT !.panic = TRUE]
    ELSE IF IsErr(u.err)
    THEN [s EXCEPT !.err = WithCause(Err("cannot unmarshal parameters"),
                                     IF u.err.cause = ErrUnmarshal THEN ErrUnmarshal ELSE "")]
    ELSE Call(ft, b, s)

\* The closure handleParams returns, from the result pf of ParseForm.
handleParamsParsed(h, req, b, s, pf) ==
    IF IsErr(pf.err)
    THEN [s EXCEPT !.err = WithCause(Err("cannot parse HTTP request form"), ErrUnmarshal)]
    ELSE handleParamsUnmarshaled(
             h.ft, b, s,
             unmarshal([form |-> pf.form, pathVar |-> req.pathVar, body |-> req.body],
                       ZeroStruct(h.ft.in[NumIn(h.ft)].fields),
                       h.ft.in[NumIn(h.ft)].fields, h.pt))

handleParams(h, req, b, s) == handleParamsParsed(h, req, b, s, ParseForm(req))

\* A variant that drops the error of WriteJSON.
handleResultJSON_DropsError(s, wj) == [s EXCEPT !.w = wj.w]

\* The end of the closure handleResult returns for two results.
handleResultJSON(s, wj) ==
    IF IsErr(wj.err) THEN WriteError([s EXCEPT !.w = wj.w], wj.err)
    ELSE [s EXCEPT !.w = wj.w]

\* The closure handleResult returns, from the state s that f left.
handleResult(ft, s) ==
    IF s.panic THEN s
    ELSE IF IsErr(s.err) THEN WriteError(s, s.err)
    ELSE IF NumOut(ft) = 0 THEN s
    ELSE IF IsErr(s.out.err) THEN WriteError(s, s.out.err)
    ELSE IF NumOut(ft) = 1 THEN s
    ELSE handleResultJSON(s, WriteJSON(s.w, StatusOK, ft.out[1], s.out.val))

\* The handler HandleJSON returns, from the state s that handle left.
handleJSONResult(ft, s) ==
    IF IsErr(s.out.err) THEN WriteError(s, s.out.err)
    ELSE handleResultJSON(s, WriteJSON(s.w, StatusOK, ft.out[1], s.out.val))

\* A variant of the responseWriter that notes Write alone.
headerWritten_WriteOnly(os) == \E i \in 1..Len(os) : os[i].op = "Write"

\* w1.headerWritten after the function did os to the responseWriter w1.
headerWritten(os) == \E i \in 1..Len(os) : os[i].op \in {"Write", "WriteHeader", "Flush"}

\* The handler HandleErrors returns, from the state s that handle left.
handleErrorsResult(b, s) ==
    IF IsErr(s.out.err) /\ ~headerWritten(b.writes) THEN WriteError(s, s.out.err) ELSE s

\* h(w, req, p) for a new recorder w.
ServeHTTP(h, req, b) ==
    CASE h.by = "HandleJSON" -> handleJSONResult(h.ft, Call(h.ft, b, NewRun))
      [] h.by = "HandleErrors" -> handleErrorsResult(b, Call(h.ft, b, NewRun))
      [] OTHER -> handleResult(h.ft, handleParams(h, req, b, NewRun))

(***************************************************************************)
(* The program of the handlers: it makes one handler of a function with    *)
(* argument type typ and serves requests with it.                          *)
(***************************************************************************)
HandlerArgTypes ==
    {PtrTo(MkStruct(ds)) : ds \in
        { <<>>,
          << Decl(<<"a">>, <<"path">>, "int", FALSE) >>,
          << Decl(<<"b">>, <<"form">>, "int", TRUE),
             Decl(<<>>, <<"body">>, "string", FALSE) >>,
          << Decl(<<>>, <<"body">>, "string", FALSE),
             Decl(<<>>, <<"body">>, "int", FALSE) >> }}
    \cup NonPtrTypes

ResultTypes == {"int", "chan"}

\* The function types Handle is given, acceptable or not.
FuncTypes(t) ==
    {FuncType(in, out) :
        in \in {<<paramsType, t>>, <<t>>},
        out \in {<<>>, <<errorType>>} \cup {<<r, errorType>> : r \in ResultTypes}}
    \cup {[kind |-> "int", in |-> <<>>, out |-> <<>>],
          FuncType(<<>>, <<>>),
          FuncType(<<paramsType, t, t>>, <<>>),
          FuncType(<<paramsType, t>>, <<"int", "int", errorType>>),
          FuncType(<<t, t>>, <<>>),
          FuncType(<<paramsType>>, <<>>),
          FuncType(<<t>>, <<"int">>),
          FuncType(<<paramsType, t>>, <<errorType, "int">>)}

HandlerRequests ==
    [rawQuery : { <<>>,
                  << [Key |-> <<"b">>, Value |-> <<"1">>] >>,
                  << [Key |-> <<"b">>, Value |-> <<"%", "6">>] >> },
     pathVar : { <<>>,
                 << [Key |-> <<"a">>, Value |-> <<"1">>] >>,
                 << [Key |-> <<"a">>, Value |-> <<"x">>] >> },
     body : {[readOK |-> TRUE, data |-> d] : d \in {JEmpty, JStr(<<"h">>)}}]

WriteOp(op, code, data, key) == [op |-> op, code |-> code, data |-> data, key |-> key]

WriteOps ==
    { <<>>,
      << WriteOp("SetHeader", 0, JEmpty, "x-f") >>,
      << WriteOp("SetHeader", 0, JEmpty, "content-type") >>,
      << WriteOp("WriteHeader", StatusCreated, JEmpty, "") >>,
      << WriteOp("Write", 0, JStr(<<"s">>), "") >>,
      << WriteOp("Flush", 0, JEmpty, "") >>,
      << WriteOp("SetHeader", 0, JEmpty, "x-f"),
         WriteOp("WriteHeader", StatusCreated, JEmpty, ""),
         WriteOp("Write", 0, JStr(<<"s">>), "") >> }

\* What a function of type ft can do when it is called.
Behaviours(ft) ==
    [writes : IF ft.in[1] = paramsType THEN WriteOps ELSE {<<>>},
     val : IF NumOut(ft) < 2 THEN {0}
           ELSE IF ft.out[1] = "int" THEN {0, Sample("int")} ELSE {<<>>},
     err : IF NumOut(ft) = 0 THEN {NoErr} ELSE {NoErr, errUnauth, errOther, errNil}]

InitHandle ==
    /\ typ \in HandlerArgTypes
    /\ typeMap = EmptyMap
    /\ handler = NoHandler
    /\ call = Idle

\* handler = errorMapper.Handle(f)
HandleCall ==
    /\ call.op = "idle"
    /\ handler.state = "none"
    /\ \E ft \in FuncTypes(typ) :
          \E h \in {Handle(typeMap, ft)} :
              /\ handler' = [state |-> h.state, ft |-> h.ft, pt |-> h.pt, err |-> h.err,
                             by |-> "Handle"]
              /\ typeMap' = h.cache
    /\ UNCHANGED <<typ, call>>

\* handler(rec, req, p)
ServeHTTPCall ==
    /\ call.op = "idle"
    /\ handler.state = "made"
    /\ \E req \in HandlerRequests, b \in Behaviours(handler.ft) :
          \E s \in {ServeHTTP(handler, req, b)} :
              call' = [op |-> "ServeHTTP", req |-> req, b |-> b, w |-> s.w,
                       mapped |-> s.mapped, fnCalls |-> s.fnCalls, err |-> s.err,
                       out |-> s.out, panic |-> s.panic, writeErrs |-> s.writeErrs]
    /\ UNCHANGED <<typ, typeMap, handler>>

\* handler = errorMapper.HandleJSON(handle), for a handle whose values are
\* of type r.
HandleJSONCall ==
    /\ call.op = "idle"
    /\ handler.state = "none"
    /\ \E r \in ResultTypes :
          handler' = [state |-> "made", ft |-> FuncType(<<paramsType>>, <<r, errorType>>),
                      pt |-> NoType, err |-> NoErr, by |-> "HandleJSON"]
    /\ UNCHANGED <<typ, typeMap, call>>

\* handler = errorMapper.HandleErrors(handle)
HandleErrorsCall ==
    /\ call.op = "idle"
    /\ handler.state = "none"
    /\ handler' = [state |-> "made", ft |-> FuncType(<<paramsType>>, <<errorType>>),
                   pt |-> NoType, err |-> NoErr, by |-> "HandleErrors"]
    /\ UNCHANGED <<typ, typeMap, call>>

\* What an ErrorMapper can return for err: what errorMapper returns, or
\* its status with a body that encoding/json cannot encode.
MapperResults(err) ==
    {errorMapper(err),
     [status |-> errorMapper(err).status, kind |-> "chan", val |-> [Message |-> <<>>]]}

\* e.WriteError(rec, err) for an ErrorMapper e that returns m for err.
WriteErrorCall ==
    /\ call.op = "idle"
    /\ \E err \in {errUnauth, errBadReq, errOther, errNil} :
          \E m \in MapperResults(err) :
              \E s \in {WriteErrorMapped(NewRun, err, m)} :
                  call' = [op |-> "WriteError", err |-> err, m |-> m, w |-> s.w,
                           mapped |-> s.mapped]
    /\ UNCHANGED <<typ, typeMap, handler>>

NextHandle ==
    \/ HandleCall
    \/ HandleJSONCall
    \/ HandleErrorsCall
    \/ ServeHTTPCall
    \/ WriteErrorCall
    \/ Return

SpecHandle == InitHandle /\ [][NextHandle]_vars

(***************************************************************************)
(* The client.  A client is [UnmarshalError]; a response of the Doer is    *)
(* [status, contentType, body]; the target of a call is [kind, v], of kind *)
(* "nil" (no target), "int" (a *int) or "httpResponse" (a **http.Response  *)
(* that holds v, a pointer to a response).                                 *)
(***************************************************************************)
\* The Content-Type Guard.
checkIsJSON(r) ==
    IF r.contentType = "application/json" THEN NoErr
    ELSE Err("unexpected content type")

\* The result of Call: the error, the target, the number of requests given
\* to the Doer and the number of calls of Close on the body of the response.
CallResult(err, target, requests, closes) ==
    [err |-> err, panic |-> FALSE, target |-> target, requests |-> requests,
     closes |-> closes, doer |-> <<>>]

\* UnmarshalJSONResponse(resp, x) for x holding cur, of the given kind.
UnmarshalJSONResponse(r, kind, cur) ==
    IF kind = "nil" THEN [err |-> NoErr, v |-> cur]
    ELSE IF IsErr(checkIsJSON(r)) THEN [err |-> checkIsJSON(r), v |-> cur]
    ELSE jsonUnmarshal(r.body, kind, cur)

\* A variant that treats a redirection as any other error response.
DefaultErrorUnmarshaler_NoRedirectCheck(r) ==
    IF IsErr(checkIsJSON(r)) THEN Err("cannot unmarshal error response")
    ELSE IF IsErr(UnmarshalJSONResponse(r, "RemoteError", [Message |-> <<>>]).err)
    THEN Err("cannot unmarshal error response")
    ELSE ErrNamed("RemoteError",
                  UnmarshalJSONResponse(r, "RemoteError", [Message |-> <<>>]).v.Message)

\* The function that ErrorUnmarshaler(new(RemoteError)) returns.
DefaultErrorUnmarshaler(r) ==
    IF 300 <= r.status /\ r.status < 400 THEN Err("unexpected redirect")
    ELSE IF IsErr(checkIsJSON(r)) THEN Err("cannot unmarshal error response")
    ELSE IF IsErr(UnmarshalJSONResponse(r, "RemoteError", [Message |-> <<>>]).err)
    THEN Err("cannot unmarshal error response")
    ELSE ErrNamed("RemoteError",
                  UnmarshalJSONResponse(r, "RemoteError", [Message |-> <<>>]).v.Message)

\* errUnmarshaler(httpResp) for the UnmarshalError of the client: none, a
\* function that returns nil, or a function that returns an error of its own.
errUnmarshaler(c, r) ==
    CASE c.UnmarshalError = "nil" -> DefaultErrorUnmarshaler(r)
      [] c.UnmarshalError = "returnsNil" -> NoErr
      [] OTHER -> Err("custom")

\* A variant of the end of Call that returns what the error unmarshaler did.
callFailed_NoSynthesizedError(e, target) == CallResult(e, target, 1, 1)

\* The end of Call for a status outside 2xx, from the error e of the error
\* unmarshaler.
callFailed(e, target) ==
    CallResult(IF IsErr(e) THEN e ELSE Err("unexpected HTTP response status"), target, 1, 1)

\* A variant of Call after the Doer that closes the body in every case.
callDone_AlwaysCloses(c, d, target) ==
    IF IsErr(d.err) THEN CallResult(d.err, target, 1, 0)
    ELSE IF target.kind = "httpResponse"
    THEN CallResult(NoErr, [target EXCEPT !.v = d.resp], 1, 1)
    ELSE IF 200 <= d.resp[1].status /\ d.resp[1].status < 300
    THEN CallResult(UnmarshalJSONResponse(d.resp[1], target.kind, target.v).err,
                    [target EXCEPT !.v = UnmarshalJSONResponse(d.resp[1], target.kind,
                                                               target.v).v],
                    1, 1)
    ELSE callFailed(errUnmarshaler(c, d.resp[1]), target)

\* Call after the Doer returned d.
callDone(c, d, target) ==
    IF IsErr(d.err) THEN CallResult(d.err, target, 1, 0)
    ELSE IF target.kind = "httpResponse"
    THEN CallResult(NoErr, [target EXCEPT !.v = d.resp], 1, 0)
    ELSE IF 200 <= d.resp[1].status /\ d.resp[1].status < 300
    THEN CallResult(UnmarshalJSONResponse(d.resp[1], target.kind, target.v).err,
                    [target EXCEPT !.v = UnmarshalJSONResponse(d.resp[1], target.kind,
                                                               target.v).v],
                    1, 1)
    ELSE callFailed(errUnmarshaler(c, d.resp[1]), target)

\* The body of the request that Marshal built, as the BytesReaderCloser
\* that Call takes it to be: a reader, never nil, of the bytes of the body.
BytesReaderCloser(req) == <<req.body>>

\* A variant that uses DoWithBody only for a request with a body.
doerCall_OnlyWithBody(c, req) ==
    IF c.Doer = "DoWithBody" /\ req.body # JEmpty
    THEN [method |-> "DoWithBody", reqBody |-> <<>>, body |-> BytesReaderCloser(req)]
    ELSE [method |-> "Do", reqBody |-> BytesReaderCloser(req), body |-> <<>>]

\* The call that Call makes on the Doer of c for the request: the method,
\* the Body field of the request (<<>> when nil) and the body argument
\* (<<>> when there is none).  A nil Doer is http.DefaultClient, which has
\* no DoWithBody.
doerCall(c, req) ==
    IF c.Doer = "DoWithBody"
    THEN [method |-> "DoWithBody", reqBody |-> <<>>, body |-> BytesReaderCloser(req)]
    ELSE [method |-> "Do", reqBody |-> BytesReaderCloser(req), body |-> <<>>]

\* Call after Marshal returned m.
callMarshaled(c, m, d, target) ==
    IF m.panic THEN [CallResult(NoErr, target, 0, 0) EXCEPT !.panic = TRUE]
    ELSE IF IsErr(m.err) THEN CallResult(m.err, target, 0, 0)
    ELSE [callDone(c, d, target) EXCEPT !.doer = <<doerCall(c, m.req[1])>>]

\* Call after getRequestType returned g; route is the method and the path
\* of the Route field of the type.
callTyped(c, g, route, t, xv, d, target) ==
    IF IsErr(g.err) THEN CallResult(g.err, target, 0, 0)
    ELSE IF route.method = ""
    THEN CallResult(Err("type has no httprequest.Route field"), target, 0, 0)
    ELSE callMarshaled(c, Marshal(g.cache, route.path, route.method, t, xv), d, target)

\* c.Call(&xv, target) for xv of type t, with a Doer that returns d.
ClientCall(cache, c, route, t, xv, d, target) ==
    callTyped(c, getRequestType(cache, t), route, t, xv, d, target)

(***************************************************************************)
(* The program of the client: it calls the endpoint of typ.                *)
(***************************************************************************)
ClientTypes ==
    {PtrTo(MkStruct(ds)) : ds \in
        { <<>>,
          << Decl(<<"a">>, <<"path">>, "string", FALSE) >>,
          << Decl(<<>>, <<"body">>, "string", FALSE) >> }}
    \cup {[kind |-> "ptr", elem |-> "int", fields |-> <<>>]}

Routes ==
    {[method |-> "", path |-> <<>>],
     [method |-> "GET", path |-> <<"/", ":", "a">>],
     [method |-> "POST", path |-> <<"/">>]}

Clients ==
    [UnmarshalError : {"nil", "returnsNil", "returnsError"},
     Doer : {"nil", "Do", "DoWithBody"}]

Statuses == {199, 200, 299, 300, 307, 399, 400, 500}

Responses ==
    [status : Statuses,
     contentType : {"application/json", "text/plain"},
     body : {JNum(5), JInvalid, JObj([k \in {"Message"} |-> JStr(<<"m">>)])}]

\* What the Doer can return: an error, or a response.
DoerResults ==
    {[err |-> Err("do failed"), resp |-> <<>>]}
        \cup {[err |-> NoErr, resp |-> <<r>>] : r \in Responses}

Targets ==
    {[kind |-> "nil", v |-> <<>>], [kind |-> "int", v |-> 0],
     [kind |-> "httpResponse", v |-> <<>>]}

InitClient ==
    /\ typ \in ClientTypes
    /\ typeMap = EmptyMap
    /\ handler = NoHandler
    /\ call = Idle

\* err = c.Call(&x, target)
ClientCallCall ==
    /\ call.op = "idle"
    /\ \E c \in Clients, route \in Routes, x \in ValuesOf(typ.fields),
          d \in DoerResults, target \in Targets :
          \E r \in {ClientCall(typeMap, c, route, typ, x, d, target)} :
              /\ call' = [op |-> "Call", c |-> c, route |-> route, x |-> x, d |-> d,
                          target0 |-> target, err |-> r.err, panic |-> r.panic,
                          target |-> r.target, requests |-> r.requests,
                          closes |-> r.closes, doer |-> r.doer]
              /\ typeMap' = getRequestType(typeMap, typ).cache
    /\ UNCHANGED <<typ, handler>>

NextClient == ClientCallCall \/ Return

SpecClient == InitClient /\ [][NextClient]_vars

(***************************************************************************)
(* Concurrent calls of getRequestType(typ).  call holds the goroutines:    *)
(* pc their places in getRequestType, local what each read or made (found, *)
(* the descriptor pt, id the goroutine that allocated it, 0 for one of an  *)
(* earlier round, partial whether the map was being written when it was    *)
(* read), ret what each returned; readers and writer are typeMutex, owner  *)
(* is the id of the descriptor in typeMap and writing is true while an     *)
(* assignment to typeMap is under way.                                     *)
(***************************************************************************)
NoLocal == [found |-> FALSE, pt |-> NoType, id |-> 0, partial |-> FALSE, err |-> NoErr]

\* A variant of the mutex that lets readers in beside a writer.
CanRLock_BesideWriter(m) == m.writer \in 0..MaxCallers

\* typeMutex.RLock() can proceed.
CanRLock(m) == m.writer = 0

\* typeMutex.Lock() can proceed.
CanLock(m) == m.writer = 0 /\ m.readers = 0

\* pt := typeMap[t], as a goroutine sees it.
Lookup(m, cache, t) ==
    [found |-> t \in DOMAIN cache,
     pt |-> IF t \in DOMAIN cache THEN cache[t] ELSE NoType,
     id |-> m.owner, partial |-> m.writing, err |-> NoErr]

\* n goroutines call getRequestType(typ).
Go ==
    /\ call.op = "idle"
    /\ \E n \in 1..MaxCallers :
          call' = [op |-> "getRequestTypes", n |-> n,
                   pc |-> [p \in 1..n |-> "RLock"],
                   local |-> [p \in 1..n |-> NoLocal],
                   ret |-> [p \in 1..n |-> NoLocal],
                   readers |-> 0, writer |-> 0, owner |-> 0, writing |-> FALSE]
    /\ UNCHANGED <<typ, typeMap, handler>>

Running(p, at) == call.op = "getRequestTypes" /\ p \in 1..call.n /\ call.pc[p] = at

\* typeMutex.RLock()
RLock ==
    \E p \in 1..MaxCallers :
        /\ Running(p, "RLock")
        /\ CanRLock(call)
        /\ call' = [call EXCEPT !.readers = @ + 1, !.pc[p] = "read"]
        /\ UNCHANGED <<typ, typeMap, handler>>

\* pt := typeMap[t]
ReadMap ==
    \E p \in 1..MaxCallers :
        /\ Running(p, "read")
        /\ call' = [call EXCEPT !.local[p] = Lookup(call, typeMap, typ),
                                !.pc[p] = "RUnlock"]
        /\ UNCHANGED <<typ, typeMap, handler>>

\* A variant that goes on to Lock without giving up the read lock.
RUnlock_KeepsReadLock ==
    \E p \in 1..MaxCallers :
        /\ Running(p, "RUnlock")
        /\ call' = [call EXCEPT !.readers = IF call.local[p].found THEN @ - 1 ELSE @,
                                !.ret[p] = IF call.local[p].found THEN call.local[p] ELSE @,
                                !.pc[p] = IF call.local[p].found THEN "done" ELSE "Lock"]
        /\ UNCHANGED <<typ, typeMap, handler>>

\* typeMutex.RUnlock(), and the return of a descriptor that was found.
RUnlock ==
    \E p \in 1..MaxCallers :
        /\ Running(p, "RUnlock")
        /\ call' = [call EXCEPT !.readers = @ - 1,
                                !.ret[p] = IF call.local[p].found THEN call.local[p] ELSE @,
                                !.pc[p] = IF call.local[p].found THEN "done" ELSE "Lock"]
        /\ UNCHANGED <<typ, typeMap, handler>>

\* typeMutex.Lock()
Lock ==
    \E p \in 1..MaxCallers :
        /\ Running(p, "Lock")
        /\ CanLock(call)
        /\ call' = [call EXCEPT !.writer = p, !.pc[p] = "locked"]
        /\ UNCHANGED <<typ, typeMap, handler>>

\* What a goroutine that holds the lock and found nothing has after
\* parseRequestType returned r.
Parsed(p, r) == [found |-> FALSE, pt |-> r.pt, id |-> p, partial |-> FALSE, err |-> r.err]

\* A variant without the second look at typeMap.
Recheck_NoSecondLook ==
    \E p \in 1..MaxCallers :
        /\ Running(p, "locked")
        /\ \E r \in {parseRequestType(typ)} :
              call' = IF IsErr(r.err)
                      THEN [call EXCEPT !.local[p] = Parsed(p, r), !.ret[p] = Parsed(p, r),
                                        !.pc[p] = "Unlock"]
                      ELSE [call EXCEPT !.local[p] = Parsed(p, r), !.writing = TRUE,
                                        !.pc[p] = "store"]
        /\ UNCHANGED <<typ, typeMap, handler>>

\* The second look at typeMap, and parseRequestType when nothing is there:
\* an error is returned, a descriptor goes on to be stored.
Recheck ==
    \E p \in 1..MaxCallers :
        /\ Running(p, "locked")
        /\ \E l \in {Lookup(call, typeMap, typ)}, r \in {parseRequestType(typ)} :
              call' = IF l.found
                      THEN [call EXCEPT !.local[p] = l, !.ret[p] = l, !.pc[p] = "Unlock"]
                      ELSE IF IsErr(r.err)
                      THEN [call EXCEPT !.local[p] = Parsed(p, r), !.ret[p] = Parsed(p, r),
                                        !.pc[p] = "Unlock"]
                      ELSE [call EXCEPT !.local[p] = Parsed(p, r), !.writing = TRUE,
                                        !.pc[p] = "store"]
        /\ UNCHANGED <<typ, typeMap, handler>>

\* typeMap[t] = pt
Store ==
    \E p \in 1..MaxCallers :
        /\ Running(p, "store")
        /\ typeMap' = Put(typeMap, typ, call.local[p].pt)
        /\ call' = [call EXCEPT !.owner = p, !.writing = FALSE,
                                !.ret[p] = call.local[p], !.pc[p] = "Unlock"]
        /\ UNCHANGED <<typ, handler>>

\* The deferred typeMutex.Unlock()
Unlock ==
    \E p \in 1..MaxCallers :
        /\ Running(p, "Unlock")
        /\ call' = [call EXCEPT !.writer = 0, !.pc[p] = "done"]
        /\ UNCHANGED <<typ, typeMap, handler>>

\* Every goroutine has returned.
Join ==
    /\ call.op = "getRequestTypes"
    /\ \A p \in 1..call.n : call.pc[p] = "done"
    /\ call' = Idle
    /\ UNCHANGED <<typ, typeMap, handler>>

ConcurrentTypes ==
    {PtrTo(MkStruct(ds)) : ds \in
        { << Decl(<<"a">>, <<"path">>, "string", FALSE) >>,
          << Decl(<<"b">>, <<"form">>, "int", TRUE),
             Decl(<<>>, <<"body">>, "string", FALSE) >>,
          << Decl(<<>>, <<"body">>, "string", FALSE),
             Decl(<<>>, <<"body">>, "int", FALSE) >> }}

InitConcurrent ==
    /\ typ \in ConcurrentTypes
    /\ typeMap = EmptyMap
    /\ handler = NoHandler
    /\ call = Idle

NextConcurrent ==
    Go \/ RLock \/ ReadMap \/ RUnlock \/ Lock \/ Recheck \/ Store \/ Unlock \/ Join

SpecConcurrent == InitConcurrent /\ [][NextConcurrent]_vars

\* The Go scheduler runs every goroutine that can run, and sync.RWMutex
\* hands the lock to a goroutine that waits for it once it is free.
GoroutineStep == RLock \/ ReadMap \/ RUnlock \/ Lock \/ Store \/ Unlock

\* WF_vars(Recheck), with ENABLED <<Recheck>>_vars written as the state
\* predicate it is: a goroutine holds the write lock and has not looked yet.
RecheckEnabled == \E p \in 1..MaxCallers : Running(p, "locked")
RecheckFair == []<>(~RecheckEnabled) \/ []<><<Recheck>>_vars

SpecConcurrentFair == SpecConcurrent /\ WF_vars(GoroutineStep) /\ RecheckFair

(***************************************************************************)
(* Properties of the construction of type descriptors.                     *)
(***************************************************************************)
IsPtrToStruct(t) == t.kind = "ptr" /\ t.elem = "struct"

\* The fields of t, in descriptor order, that are bound with source body.
BodyFields(t) ==
    LET fs == fields(t.fields)
    IN  {i \in 1..Len(fs) : /\ fs[i].decl.exported
                            /\ ~IsErr(parseTag(fs[i].decl).err)
                            /\ parseTag(fs[i].decl).source = sourceBody}

\* A field that parseRequestType rejects for a reason of its own.
Rejected(sf) ==
    LET tag == parseTag(sf.decl)
    IN  /\ sf.decl.exported
        /\ \/ IsErr(tag.err)
           \/ /\ tag.source # sourceBody
              /\ \/ IsErr(getUnmarshaler(tag, sf.decl.kind).err)
                 \/ IsErr(getMarshaler(tag, sf.decl.kind).err)
                 \/ sf.decl.anon /\ tag.source # sourceNone

SecondBodyField(t) ==
    CHOOSE i \in BodyFields(t) : Cardinality({k \in BodyFields(t) : k < i}) = 1

RejectedBeforeSecondBody(t) ==
    \E i \in 1..Len(fields(t.fields)) :
        i < SecondBodyField(t) /\ Rejected(fields(t.fields)[i])

TwoBodyFields == IsPtrToStruct(typ) /\ Cardinality(BodyFields(typ)) >= 2

\* C1 (as stated): building the descriptor of a struct type with two or
\* more body fields fails with "more than one body field specified", and no
\* descriptor of the type is produced or stored.
C1_AsStated ==
    TwoBodyFields =>
        /\ typ \notin DOMAIN typeMap
        /\ call.op = "getRequestType" =>
              /\ call.err.kind = "more than one body field specified"
              /\ call.pt = NoType

\* C1 (amended): building the descriptor of a struct type with two or more
\* body fields fails and no descriptor of the type is produced or stored;
\* the error is "more than one body field specified" unless a field that
\* comes before the second body field is rejected for a reason of its own.
C1_MoreThanOneBody ==
    TwoBodyFields =>
        /\ typ \notin DOMAIN typeMap
        /\ call.op = "getRequestType" =>
              /\ IsErr(call.err)
              /\ call.pt = NoType
              /\ ~RejectedBeforeSecondBody(typ) =>
                    call.err.kind = "more than one body field specified"

C1_Witness ==
    /\ TwoBodyFields
    /\ ~RejectedBeforeSecondBody(typ)
    /\ call.op = "getRequestType"
    /\ call.err.kind = "more than one body field specified"

(***************************************************************************)
(* Properties of Unmarshal and Marshal on single fields.                   *)
(***************************************************************************)
\* The fields of the struct typ points to that have no tag, or a tag with
\* no source keyword.
NoSourceFields ==
    {i \in 1..Len(typ.fields) :
        /\ ~IsErr(parseTag(typ.fields[i]).err)
        /\ parseTag(typ.fields[i]).source = sourceNone}

\* Whether Unmarshal got as far as the field at the index.
Reached(index) == \E k \in 1..Len(call.steps) : call.steps[k].index = index

\* Marshal gives what it gave for call.x when field i holds v instead.
SameRequestWith(i, v) ==
    LET r == Marshal(typeMap, call.path, call.method, typ, [call.x EXCEPT ![i] = v])
    IN  r.err = call.err /\ r.panic = call.panic /\ r.req = call.req

MarshalIgnores(i) ==
    (call.op = "Marshal" /\ ~typ.fields[i].anon) =>
        \A v \in ValuesOfField(typ.fields[i]) : SameRequestWith(i, v)

\* C2 (as stated): a field with no source keyword holds the same value
\* after Unmarshal as before it, a nil pointer staying nil, and the request
\* that Marshal builds does not depend on it.
C2_AsStated ==
    \A i \in NoSourceFields :
        /\ (call.op = "Unmarshal" /\ ~call.panic) => call.x[i] = call.x0[i]
        /\ MarshalIgnores(i)

\* C2 (amended): the request that Marshal builds does not depend on a field
\* with no source keyword, and Unmarshal leaves such a field as it was
\* unless it is a nil pointer that Unmarshal gets to: that one is replaced
\* by a pointer to a new zero value.  (For an embedded struct, whose fields
\* are bound one by one, this is about the pointer, not what it points to.)
C2_UntaggedFields ==
    \A i \in NoSourceFields :
        /\ (call.op = "Unmarshal" /\ ~call.panic) =>
              IF typ.fields[i].ptr /\ call.x0[i] = <<>> /\ Reached(<<i>>)
              THEN IF typ.fields[i].anon THEN call.x[i] # <<>>
                   ELSE call.x[i] = <<Zero(typ.fields[i].kind)>>
              ELSE IF typ.fields[i].anon THEN (call.x[i] = <<>>) = (call.x0[i] = <<>>)
                   ELSE call.x[i] = call.x0[i]
        /\ MarshalIgnores(i)

C2_Witness ==
    /\ call.op = "Unmarshal"
    /\ ~call.panic
    /\ \E i \in NoSourceFields :
          /\ ~typ.fields[i].anon
          /\ call.x0[i] = <<>>
          /\ call.x[i] = <<0>>

\* The descriptor of typ that the call in progress worked with.
DescriptorOfTyp == IF typ \in DOMAIN typeMap THEN typeMap[typ] ELSE NoType

\* The value the field of the descriptor held before the call (a field
\* promoted through a nil pointer counts as zero) and holds after it.
FieldBefore(f) ==
    LET r == FieldByIndex(call.x0, typ.fields, f.index)
    IN  IF ~r.panic THEN r.v
        ELSE IF f.makeResult = "makePointerResult" THEN <<>> ELSE Zero(f.kind)

FieldAfter(f) == FieldByIndex(call.x, typ.fields, f.index).v

\* The steps of the Unmarshal in progress that worked on a form or path
\* field for which the request has no value.
AbsentSteps ==
    {k \in 1..Len(call.steps) :
        /\ DescriptorOfTyp[k].source \in {sourceForm, sourcePath}
        /\ ~getVal(DescriptorOfTyp[k].source, DescriptorOfTyp[k].name, call.p).ok}

\* C3 (as stated): for every field type, Unmarshal reports no error for a
\* form or path field that the request has no value for, and leaves the
\* field as it was (zero in a new struct, nil for a pointer).
C3_AsStated ==
    call.op = "Unmarshal" =>
        \A k \in AbsentSteps :
            /\ ~IsErr(call.steps[k].err)
            /\ FieldAfter(DescriptorOfTyp[k]) = FieldBefore(DescriptorOfTyp[k])

\* C3 (amended): Unmarshal reports no error for a form or path field that
\* the request has no value for and leaves the field as it was, unless the
\* field's type implements TextUnmarshaler: then a nil pointer is replaced
\* by a pointer to a zero value and UnmarshalText is called with empty
\* input, and the error it returns is the error of the field.
C3_AbsentValue ==
    call.op = "Unmarshal" =>
        \A k \in AbsentSteps :
            IF implementsTextUnmarshaler(DescriptorOfTyp[k].kind)
            THEN /\ call.steps[k].err.kind = UnmarshalText(<<>>).err.kind
                 /\ FieldAfter(DescriptorOfTyp[k]) =
                        makeResult(DescriptorOfTyp[k], FieldBefore(DescriptorOfTyp[k]))
            ELSE /\ ~IsErr(call.steps[k].err)
                 /\ FieldAfter(DescriptorOfTyp[k]) = FieldBefore(DescriptorOfTyp[k])

C3_Witness ==
    /\ call.op = "Unmarshal"
    /\ \E k \in AbsentSteps :
          /\ DescriptorOfTyp[k].unmarshal = "unmarshalWithScan"
          /\ DescriptorOfTyp[k].makeResult = "makePointerResult"
          /\ FieldAfter(DescriptorOfTyp[k]) = <<>>

(***************************************************************************)
(* Properties of Marshal.                                                  *)
(***************************************************************************)
\* The fields of the struct typ points to that are bound to the body.
BodyFieldsOfTyp ==
    {i \in 1..Len(typ.fields) : parseTag(typ.fields[i]).source = sourceBody}

TheBodyField == CHOOSE i \in BodyFieldsOfTyp : TRUE

\* Field i of the marshalled value is a nil pointer.
IsNilField(i) == typ.fields[i].ptr /\ call.x[i] = <<>>

\* C4 (as stated): for a type with exactly one body field, unmarshalling
\* the request that Marshal built from x into a new struct succeeds and
\* gives a body field equal to that of x.
C4_AsStated ==
    (call.op = "RoundTrip" /\ Cardinality(BodyFieldsOfTyp) = 1) =>
        /\ ~IsErr(call.err)
        /\ call.y[TheBodyField] = call.x[TheBodyField]

\* C4 (amended): for a type with exactly one body field, unmarshalling the
\* request that Marshal built from x into a new struct fails before the
\* body field or gets to it; when it gets to it, the body field it gives is
\* equal to that of x, unless that is a nil pointer: then the request has
\* an empty body, Unmarshal fails on it and leaves a pointer to a zero
\* value.
C4_BodyRoundTrip ==
    (call.op = "RoundTrip" /\ Cardinality(BodyFieldsOfTyp) = 1) =>
        /\ ~call.panic
        /\ ~Reached(<<TheBodyField>>) => IsErr(call.err)
        /\ Reached(<<TheBodyField>>) =>
              IF IsNilField(TheBodyField)
              THEN /\ IsErr(call.err)
                   /\ call.y[TheBodyField] = <<Zero(typ.fields[TheBodyField].kind)>>
              ELSE /\ ~IsErr(call.err)
                   /\ call.y[TheBodyField] = call.x[TheBodyField]

C4_Witness ==
    /\ call.op = "RoundTrip"
    /\ Cardinality(BodyFieldsOfTyp) = 1
    /\ typ.fields[TheBodyField].kind = "embedded"
    /\ call.x[TheBodyField] = <<Sample("embedded")>>
    /\ call.y[TheBodyField] = call.x[TheBodyField]

\* Marshalling field i of the value fails: a body field that is not a nil
\* pointer with a method other than POST and PUT or a value that has no
\* JSON encoding, or a text field whose MarshalText fails.
FieldFails(i) ==
    /\ ~IsNilField(i)
    /\ \/ /\ i \in BodyFieldsOfTyp
          /\ call.method \notin {"POST", "PUT"} \/ typ.fields[i].kind = "chan"
       \/ /\ parseTag(typ.fields[i]).source \in {sourceForm, sourcePath}
          /\ typ.fields[i].kind = "text"
          /\ call.x[i] \in {<<>>, << <<>> >>}

SomeFieldFails == \E i \in 1..Len(typ.fields) : FieldFails(i)

\* The fields that give a path variable of the name, and the value that
\* the last of them gives.
PathFieldsNamed(name) ==
    {i \in 1..Len(typ.fields) :
        /\ parseTag(typ.fields[i]).source = sourcePath
        /\ parseTag(typ.fields[i]).name = name
        /\ ~IsNilField(i)}

IsBound(name) == PathFieldsNamed(name) # {}

LastNamed(name) == CHOOSE i \in PathFieldsNamed(name) : \A k \in PathFieldsNamed(name) : k <= i

FieldString(i) == IF typ.fields[i].ptr THEN call.x[i][1] ELSE call.x[i]

BoundValue(name) ==
    IF typ.fields[LastNamed(name)].kind = "text"
    THEN <<"t", "e", "s", "t", "_">> \o FieldString(LastNamed(name))
    ELSE FieldString(LastNamed(name))

\* The placeholders of call.path.  Positions count from 0; a placeholder
\* starts at ":" or "*" and its name runs to the next ":" or "/".
CharAt(j) == call.path[j + 1]
Positions == 0..(Len(call.path) - 1)
NameEnd(j) ==
    CHOOSE e \in (j + 1)..Len(call.path) :
        /\ e = Len(call.path) \/ CharAt(e) \in {":", "/"}
        /\ \A k \in (j + 1)..(e - 1) : CharAt(k) \notin {":", "/"}
NameAt(j) == Slice(call.path, j + 1, NameEnd(j))
IsPlaceholder(j) == CharAt(j) \in {":", "*"}

\* A placeholder that marshal rejects whatever the value is.
Malformed(j) ==
    /\ IsPlaceholder(j)
    /\ (CharAt(j) = "*" /\ NameEnd(j) # Len(call.path)) \/ NameAt(j) = <<>>

\* The ":name" placeholders for which the value gives no path variable.
UnboundColons ==
    {j \in Positions : CharAt(j) = ":" /\ NameAt(j) # <<>> /\ ~IsBound(NameAt(j))}

FirstUnbound == CHOOSE j \in UnboundColons : \A k \in UnboundColons : j <= k

MissingValue == "missing value for path parameter"

\* The value marshalled is a pointer to a struct.
OfStruct == typ.kind = "ptr" /\ typ.elem = "struct"

StarBeforeEnd ==
    \E j \in Positions : CharAt(j) = "*" /\ NameEnd(j) # Len(call.path)

\* The last segment of the path is the placeholder "*name" at position j,
\* the value gives a path variable for name, and nothing else makes Marshal
\* fail: no field does, and the placeholders before j are well formed and
\* have values.
FinalStar(j) ==
    /\ 0 < j
    /\ CharAt(j) = "*"
    /\ CharAt(j - 1) = "/"
    /\ NameEnd(j) = Len(call.path)
    /\ IsBound(NameAt(j))
    /\ ~SomeFieldFails
    /\ \A k \in 0..(j - 1) : IsPlaceholder(k) => ~Malformed(k) /\ IsBound(NameAt(k))

NoPlaceholderBefore(j) == \A k \in 0..(j - 1) : ~IsPlaceholder(k)

\* The path ends with the value.
EndsWith(path, val) ==
    Len(val) <= Len(path) /\ SubSeq(path, Len(path) - Len(val) + 1, Len(path)) = val

\* Marshal returned a request in which the placeholder at j has been
\* replaced by its value.
Substituted(j) ==
    /\ ~IsErr(call.err)
    /\ call.req # NoRequest
    /\ EndsWith(call.req[1].path, BoundValue(NameAt(j)))
    /\ NoPlaceholderBefore(j) =>
          call.req[1].path = Slice(call.path, 0, j) \o BoundValue(NameAt(j))

StartsWithSlash(val) == val # <<>> /\ Head(val) = "/"

\* C7 (as stated): with a "*name" placeholder as the last segment of the
\* path, Marshal fails when the value of name does not start with "/" and
\* succeeds when it does.
C7_AsStated ==
    call.op = "Marshal" =>
        \A j \in Positions :
            (FinalStar(j) /\ ~call.panic) =>
                (IsErr(call.err) <=> ~StartsWithSlash(BoundValue(NameAt(j))))

\* The failing input of C7: "/*a" with a string field a holding "o".
C7_Witness ==
    /\ call.op = "Marshal"
    /\ call.path = <<"/", "*", "a">>
    /\ FinalStar(1)
    /\ BoundValue(<<"a">>) = <<"o">>
    /\ ~IsErr(call.err)
    /\ call.req # NoRequest
    /\ call.req[1].path = <<"/", "o">>

\* Marshal has nothing to fail on but the body: the path has no
\* placeholder and no field other than a body field fails.
OnlyBodyCanFail ==
    /\ \A j \in Positions : ~IsPlaceholder(j)
    /\ \A i \in 1..Len(typ.fields) : FieldFails(i) => i \in BodyFieldsOfTyp

\* C8 (as stated): Marshal with method GET of a value whose body field is
\* not nil succeeds, and the body of the request is the JSON encoding of
\* the field.
C8_AsStated ==
    (/\ call.op = "Marshal"
     /\ call.method = "GET"
     /\ ~call.panic
     /\ OnlyBodyCanFail) =>
        \A i \in BodyFieldsOfTyp :
            (~IsNilField(i) /\ typ.fields[i].kind # "chan") =>
                /\ ~IsErr(call.err)
                /\ call.req # NoRequest
                /\ call.req[1].body =
                      jsonMarshal(typ.fields[i].kind,
                                  IF typ.fields[i].ptr THEN call.x[i][1] ELSE call.x[i]).data

\* The failing input of C8: GET, path "/", a string body field holding "o".
C8_Witness ==
    /\ call.op = "Marshal"
    /\ call.method = "GET"
    /\ call.path = <<"/">>
    /\ Len(typ.fields) = 1
    /\ BodyFieldsOfTyp = {1}
    /\ typ.fields[1].kind = "string"
    /\ call.x = << <<"o">> >>
    /\ call.err.kind = "cannot marshal field"
    /\ call.req = NoRequest

(***************************************************************************)
(* Properties of the handlers.                                             *)
(***************************************************************************)
\* The fields of the argument struct of the handler's function.
ArgFields == handler.ft.in[NumIn(handler.ft)].fields

\* The parameters the handler unmarshals the request of the run from.
ParamsOfRun ==
    [form |-> ParseForm(call.req).form, pathVar |-> call.req.pathVar,
     body |-> call.req.body]

ParseFails == IsErr(ParseForm(call.req).err)

UnmarshalFails ==
    /\ ~ParseFails
    /\ IsErr(unmarshal(ParamsOfRun, ZeroStruct(ArgFields), ArgFields, handler.pt).err)

\* The JSON text of the body the ErrorMapper gives for err.
MappedBody(err) == jsonMarshal(errorMapper(err).kind, errorMapper(err).val).data

\* The response is the one response that WriteJSON(w, code, v) makes when
\* the encoding of v is data.
IsResponse(code, data) ==
    /\ call.w.calls = << [op |-> "WriteHeader", code |-> code, data |-> JEmpty],
                         [op |-> "Write", code |-> 0, data |-> data] >>
    /\ call.w.code = code
    /\ call.w.body = <<data>>

\* C9: when parsing the form of a request or unmarshalling its parameters
\* fails, the run of the handler does not call the function, gives one
\* error to the ErrorMapper, an error whose cause is ErrUnmarshal, and
\* writes exactly the response the ErrorMapper returns for it.
C9_UnmarshalFailure ==
    (call.op = "ServeHTTP" /\ handler.by = "Handle" /\ (ParseFails \/ UnmarshalFails)) =>
        /\ call.fnCalls = 0
        /\ Len(call.mapped) = 1
        /\ Cause(call.mapped[1]) = ErrUnmarshal
        /\ IsResponse(errorMapper(call.mapped[1]).status, MappedBody(call.mapped[1]))

\* The parameters of a request cannot be unmarshaled, for a function that
\* takes Params and would have written to the response, and the response
\* is the ErrorMapper's alone.
C9_Witness ==
    /\ call.op = "ServeHTTP"
    /\ handler.by = "Handle"
    /\ UnmarshalFails
    /\ handler.ft.in[1] = paramsType
    /\ NumOut(handler.ft) = 1
    /\ Len(call.b.writes) = 3
    /\ call.fnCalls = 0
    /\ call.w.code = StatusBadRequest

\* The run called a function with results (ResultT, error).
CalledWithResult ==
    /\ call.op = "ServeHTTP"
    /\ handler.by = "Handle"
    /\ NumOut(handler.ft) = 2
    /\ ~ParseFails
    /\ ~UnmarshalFails

\* The JSON encoding of the value the function returned.
EncodedResult == jsonMarshal(handler.ft.out[1], call.b.val)

\* The function returned a non-nil error: the response is the ErrorMapper's
\* for that error, and nothing else is written.
ErrorIsMapped ==
    (CalledWithResult /\ IsErr(call.b.err)) =>
        IsResponse(errorMapper(call.b.err).status, MappedBody(call.b.err))

\* C10 as stated: after a successful unmarshal, a nil error gives the
\* status 200 with the JSON encoding of the returned value as the body,
\* and a non-nil error gives the ErrorMapper's status and body.
C10_AsStated ==
    /\ (CalledWithResult /\ ~IsErr(call.b.err)) =>
           IsResponse(StatusOK, EncodedResult.data)
    /\ ErrorIsMapped

\* C10: after a successful unmarshal, a nil error with a value that can be
\* encoded as JSON gives the status 200 with the encoding as the body; a nil
\* error with a value that cannot be encoded gives the ErrorMapper's
\* response for the encoding error, and nothing of the value is written; a
\* non-nil error gives the ErrorMapper's response for that error.
C10_ResultOrMappedError ==
    /\ (CalledWithResult /\ ~IsErr(call.b.err) /\ ~IsErr(EncodedResult.err)) =>
           IsResponse(StatusOK, EncodedResult.data)
    /\ (CalledWithResult /\ ~IsErr(call.b.err) /\ IsErr(EncodedResult.err)) =>
           /\ call.mapped = <<EncodedResult.err>>
           /\ IsResponse(errorMapper(EncodedResult.err).status,
                         MappedBody(EncodedResult.err))
    /\ ErrorIsMapped

\* A function returns a channel and a nil error: the response has the
\* status the ErrorMapper gives for the encoding error.
C10_Witness ==
    /\ CalledWithResult
    /\ ~IsErr(call.b.err)
    /\ handler.ft.out[1] = "chan"
    /\ call.fnCalls = 1
    /\ call.w.code = StatusInternalServerError

\* The last argument of ft is a type that Unmarshal can bind.
LastArgBindable(ft) == ~IsErr(parseRequestType(ft.in[NumIn(ft)]).err)

\* ft is one of the six forms that Handle documents.
AcceptedForm(ft) ==
    /\ ft.kind = "func"
    /\ NumIn(ft) \in {1, 2}
    /\ NumIn(ft) = 2 => ft.in[1] = paramsType
    /\ LastArgBindable(ft)
    /\ \/ ft.out \in {<<>>, <<errorType>>}
       \/ NumOut(ft) = 2 /\ ft.out[2] = errorType

\* ft is not a function, or has a wrong number of arguments or results, or
\* a first of two arguments that is not Params, or a last argument that
\* cannot be bound, or a final result that is not error.
BadFunction(ft) ==
    \/ ft.kind # "func"
    \/ NumIn(ft) \notin {1, 2}
    \/ NumOut(ft) > 2
    \/ NumIn(ft) = 2 /\ ft.in[1] # paramsType
    \/ NumIn(ft) \in {1, 2} /\ ~LastArgBindable(ft)
    \/ NumOut(ft) > 0 /\ ft.out[NumOut(ft)] # errorType

\* C11: Handle(f) panics, before any request is served, for every f that
\* is not a function, has an unsupported number of arguments or results, a
\* leading argument that is not Params, a last argument that Unmarshal
\* cannot bind or a final result that is not error; it returns a handler
\* for every function of an accepted form.
C11_HandlePanics ==
    (handler.state # "none" /\ handler.by = "Handle") =>
        /\ BadFunction(handler.ft) => handler.state = "panic" /\ call.op # "ServeHTTP"
        /\ AcceptedForm(handler.ft) => handler.state = "made"
        /\ BadFunction(handler.ft) \/ AcceptedForm(handler.ft)

\* Handle panicked for a function whose only fault is its final result.
C11_Witness ==
    /\ handler.state = "panic"
    /\ handler.ft.kind = "func"
    /\ NumIn(handler.ft) = 2
    /\ handler.ft.in[1] = paramsType
    /\ LastArgBindable(handler.ft)
    /\ NumOut(handler.ft) = 2
    /\ handler.err.kind = "final result parameter is not error"

\* The run called a function that was given a headerOnlyResponseWriter: a
\* function with Params and the results (ResultT, error), or the function
\* of HandleJSON.
HeaderOnlyRun ==
    /\ call.op = "ServeHTTP"
    /\ call.fnCalls = 1
    /\ handler.ft.in[1] = paramsType
    /\ NumOut(handler.ft) = 2

\* The run of the same handler on the same request with a function that
\* returns the same but does nothing to Params.Response.
QuietRun == ServeHTTP(handler, call.req, [call.b EXCEPT !.writes = <<>>])

\* Every Write of the function returned an error, and the calls that
\* reached the response, its status and its body are those of the adapter.
OnlyAdapterWrites ==
    /\ Len(call.writeErrs) =
          Cardinality({i \in 1..Len(call.b.writes) : call.b.writes[i].op = "Write"})
    /\ \A i \in 1..Len(call.writeErrs) : IsErr(call.writeErrs[i])
    /\ call.w.calls = QuietRun.w.calls
    /\ call.w.code = QuietRun.w.code
    /\ call.w.body = QuietRun.w.body

\* The keys of the headers the function set.
KeysSet == {call.b.writes[i].key : i \in {j \in 1..Len(call.b.writes) :
                                              call.b.writes[j].op = "SetHeader"}}

HeaderHas(k, v) == k \in DOMAIN call.w.header /\ call.w.header[k] = v

\* C12 as stated: the writes of the function do not reach the response, and
\* every header it set is in the response.
C12_AsStated ==
    HeaderOnlyRun => (OnlyAdapterWrites /\ \A k \in KeysSet : HeaderHas(k, "f"))

\* C12: in a handler that gives the function a headerOnlyResponseWriter,
\* every Write of the function returns an error and delivers nothing, a
\* WriteHeader has no effect, and the status and body of the response are
\* the adapter's; a header the function set is in the response, except
\* content-type, which the adapter sets to application/json when it writes.
C12_HeaderOnly ==
    HeaderOnlyRun =>
        /\ OnlyAdapterWrites
        /\ \A k \in KeysSet \ {"content-type"} : HeaderHas(k, "f")
        /\ HeaderHas("content-type", "application/json")

\* The function of HandleJSON set a header, wrote a status and a body and
\* returned a value: the response is the adapter's, with the header.
C12_Witness ==
    /\ HeaderOnlyRun
    /\ handler.by = "HandleJSON"
    /\ Len(call.b.writes) = 3
    /\ ~IsErr(call.b.err)
    /\ Len(call.writeErrs) = 1
    /\ call.w.code = StatusOK
    /\ HeaderHas("x-f", "f")

\* The run called the function of a handler made by HandleErrors, and the
\* function returned an error.
HandleErrorsFailed ==
    /\ call.op = "ServeHTTP"
    /\ handler.by = "HandleErrors"
    /\ IsErr(call.b.err)

\* The function called Write, WriteHeader or Flush on its response writer.
FunctionWrote ==
    \E i \in 1..Len(call.b.writes) : call.b.writes[i].op # "SetHeader"

\* C13: when the function of a HandleErrors handler has called Write,
\* WriteHeader or Flush and returns an error, nothing is given to the
\* ErrorMapper and the response is as the function left it; when it
\* returns an error without any of the three, the response is the one
\* response of the ErrorMapper for that error.
C13_ErrorAfterWrite ==
    /\ (HandleErrorsFailed /\ FunctionWrote) =>
           /\ call.mapped = <<>>
           /\ call.w = ApplyWrites(NewRecorder, call.b.writes, FALSE)
    /\ (HandleErrorsFailed /\ ~FunctionWrote) =>
           /\ call.mapped = <<call.b.err>>
           /\ IsResponse(errorMapper(call.b.err).status, MappedBody(call.b.err))

\* The function flushed the response and returned an error: the response
\* has the status of the flush and no body.
C13_Witness ==
    /\ HandleErrorsFailed
    /\ Len(call.b.writes) = 1
    /\ call.b.writes[1].op = "Flush"
    /\ call.mapped = <<>>
    /\ call.w.code = StatusOK
    /\ call.w.body = <<>>

\* C20 (as stated): after WriteError, whatever body the ErrorMapper
\* returned, the response has the content-type application/json and the
\* status that the ErrorMapper returned.
C20_AsStated ==
    call.op = "WriteError" =>
        /\ HeaderHas("content-type", "application/json")
        /\ call.w.code = call.m.status

\* The failing input of C20: the ErrorMapper returns a body that cannot be
\* encoded, and WriteError leaves the response as it was.
C20_Witness ==
    /\ call.op = "WriteError"
    /\ call.m.kind = "chan"
    /\ call.mapped = <<call.err>>
    /\ call.w = NewRecorder

(***************************************************************************)
(* Properties of the client.                                               *)
(***************************************************************************)
\* The call gets as far as the Doer: the type has a descriptor and a route,
\* and Marshal makes a request of the value.
ReachesDoer ==
    /\ call.op = "Call"
    /\ ~IsErr(parseRequestType(typ).err)
    /\ call.route.method # ""
    /\ ~IsErr(Marshal(EmptyMap, call.route.path, call.route.method, typ, call.x).err)

\* The Doer returned a response to the call.
Responded == ReachesDoer /\ call.d.resp # <<>>

\* The Doer returned a response with a status in 300..399.
Redirected == Responded /\ call.d.resp[1].status \in 300..399

RawTarget == call.target0.kind = "httpResponse"

\* The call gave one request to the Doer if it got that far, and none if not.
OneRequest ==
    call.op = "Call" => call.requests = (IF ReachesDoer THEN 1 ELSE 0)

\* C14 as stated: a response with a status in 300..399 makes Call return
\* the unexpected-redirect error, and a call gives the Doer one request.
C14_AsStated ==
    /\ Redirected => call.err.kind = "unexpected redirect"
    /\ OneRequest

\* C14: for a response with a status in 300..399, Call returns the
\* unexpected-redirect error when the target is not a **http.Response and
\* the client has no UnmarshalError of its own; with an UnmarshalError of
\* its own it returns the error of that function, or the synthesized one
\* when that is nil; with a **http.Response target it stores the response
\* and returns nil.  In every case the Doer gets exactly one request.
C14_Redirect ==
    /\ (Redirected /\ ~RawTarget /\ call.c.UnmarshalError = "nil") =>
           call.err.kind = "unexpected redirect"
    /\ (Redirected /\ ~RawTarget /\ call.c.UnmarshalError = "returnsNil") =>
           call.err.kind = "unexpected HTTP response status"
    /\ (Redirected /\ ~RawTarget /\ call.c.UnmarshalError = "returnsError") =>
           call.err.kind = "custom"
    /\ (Redirected /\ RawTarget) => (~IsErr(call.err) /\ call.target.v = call.d.resp)
    /\ OneRequest

\* A call of the default client got the status 307: one request, and the
\* unexpected-redirect error.
C14_Witness ==
    /\ Redirected
    /\ call.d.resp[1].status = 307
    /\ call.c.UnmarshalError = "nil"
    /\ call.target0.kind = "int"
    /\ call.requests = 1
    /\ call.err.kind = "unexpected redirect"

\* C15: when the target is not a **http.Response and the status of the
\* response is outside 200..299, Call returns an error: the one the error
\* unmarshaler of the client returns (DefaultErrorUnmarshaler when the
\* client has none), or the unexpected-status error when that returns nil.
C15_ErrorStatus ==
    (Responded /\ ~RawTarget /\ call.d.resp[1].status \notin 200..299) =>
        /\ IsErr(call.err)
        /\ call.c.UnmarshalError = "nil" =>
               call.err = DefaultErrorUnmarshaler(call.d.resp[1])
        /\ call.c.UnmarshalError = "returnsNil" =>
               call.err = Err("unexpected HTTP response status")
        /\ call.c.UnmarshalError = "returnsError" => call.err = Err("custom")

\* The error unmarshaler of the client returned nil for the status 500.
C15_Witness ==
    /\ Responded
    /\ call.target0.kind = "nil"
    /\ call.d.resp[1].status = 500
    /\ call.c.UnmarshalError = "returnsNil"
    /\ call.err.kind = "unexpected HTTP response status"

\* C16: when the Doer returned a response, a **http.Response target holds
\* it and its body has not been closed; with any other target the body has
\* been closed exactly once when Call returns, whatever Call returns.
C16_BodyClosed ==
    /\ (Responded /\ RawTarget) => (call.target.v = call.d.resp /\ call.closes = 0)
    /\ (Responded /\ ~RawTarget) => call.closes = 1

\* A response that cannot be decoded into the target: Call returns an
\* error, and the body has been closed once.
C16_Witness ==
    /\ Responded
    /\ call.target0.kind = "int"
    /\ call.d.resp[1].status = 200
    /\ call.d.resp[1].contentType = "text/plain"
    /\ IsErr(call.err)
    /\ call.closes = 1

(***************************************************************************)
(* Properties of concurrent calls of getRequestType.                       *)
(***************************************************************************)
\* The goroutines that have returned.
Returned == {p \in 1..call.n : call.pc[p] = "done"}

\* C17: of concurrent calls of getRequestType for a type that has a
\* descriptor, each returns the whole descriptor without an error, all
\* return the same descriptor, and none reads the cache while it is being
\* written.
C17_SameDescriptor ==
    (call.op = "getRequestTypes" /\ ~IsErr(parseRequestType(typ).err)) =>
        /\ \A p \in Returned :
               /\ ~IsErr(call.ret[p].err)
               /\ call.ret[p].pt = parseRequestType(typ).pt
        /\ \A p, q \in Returned : call.ret[p].id = call.ret[q].id
        /\ \A p \in 1..call.n : ~call.local[p].partial

\* Three goroutines have returned, the first with the descriptor that the
\* second made.
C17_Witness ==
    /\ call.op = "getRequestTypes"
    /\ call.n >= 3
    /\ ~IsErr(parseRequestType(typ).err)
    /\ Returned = 1..call.n
    /\ call.ret[1].id = 2
    /\ call.ret[1].found

(***************************************************************************)
(* Properties of Marshal and Unmarshal on values that are no structs.      *)
(***************************************************************************)
\* The value is neither a struct nor a pointer to a struct (an int, or a
\* pointer to an int).
NotStruct == typ.kind # "struct" /\ ~OfStruct

\* C18: Unmarshal and Marshal of a value whose type is neither a struct nor
\* a pointer to a struct return an error whose cause is ErrBadUnmarshalType
\* and do not panic; Unmarshal leaves its target as it was, Marshal returns
\* no request, and the cache of type descriptors stays as it was (empty, as
\* the program has no other type).
C18_BadType ==
    NotStruct =>
        /\ typeMap = EmptyMap
        /\ call.op \in {"Unmarshal", "Marshal"} =>
              /\ IsErr(call.err)
              /\ call.err.cause = ErrBadUnmarshalType
              /\ ~call.panic
        /\ call.op = "Unmarshal" => call.x = call.x0
        /\ call.op = "Marshal" => call.req = NoRequest

C18_Witness ==
    /\ typ.kind = "int"
    /\ call.op = "Unmarshal"
    /\ call.err.cause = ErrBadUnmarshalType
    /\ call.x = call.x0
    /\ typeMap = EmptyMap

(***************************************************************************)
(* Properties of the source keywords of a tag.                             *)
(***************************************************************************)
\* The one field of the type, and the source keyword of its tag.
TagField == typ.fields[1]
HasKeyword == Len(typ.fields) = 1 /\ Len(typ.fields[1].flags) = 1
Keyword == TagField.flags[1]

\* The field is one that every source can fill: a string, or an int.
PlainField == TagField.kind \in {"string", "int"}

\* C19 (as stated): a tag whose source keyword is path, form, header or body
\* is accepted when the descriptor is built, and a tag with any other
\* keyword makes getRequestType fail with an error that names the field and
\* the keyword.
C19_AsStated ==
    (call.op = "getRequestType" /\ HasKeyword) =>
        /\ (Keyword \in {"path", "form", "header", "body"} /\ PlainField) =>
              ~IsErr(call.err)
        /\ Keyword \notin {"path", "form", "header", "body"} =>
              /\ call.err.kind = "bad tag"
              /\ call.err.name = TagField.name
              /\ call.err.flag = Keyword

\* The failing input of C19: the tag `httprequest:"x,header"` on a string
\* field is rejected as an unknown tag flag.
C19_Witness ==
    /\ call.op = "getRequestType"
    /\ HasKeyword
    /\ Keyword = "header"
    /\ TagField.kind = "string"
    /\ TagField.tagName = <<"x">>
    /\ call.err.kind = "bad tag"
    /\ call.err.flag = "header"
    /\ call.pt = NoType

(***************************************************************************)
(* Properties of the fields that unmarshal themselves from text.           *)
(***************************************************************************)
\* The steps of the Unmarshal in progress that worked on a form or path
\* field whose type has an UnmarshalText method.
TextSteps ==
    {k \in 1..Len(call.steps) :
        DescriptorOfTyp[k].unmarshal = "unmarshalWithUnmarshalText"}

\* The text of the request for the field: its first value, or nothing.
TextOf(f) == getVal(f.source, f.name, call.p).val

FieldFailed ==
    /\ call.op = "Unmarshal"
    /\ ~call.panic
    /\ ~IsErr(call.typeErr)
    /\ IsErr(call.err)

\* Whether the call left the field as it was.
Untouched(f) ==
    FieldByIndex(call.x, typ.fields, f.index) = FieldByIndex(call.x0, typ.fields, f.index)

\* C22: when the unmarshal function of a field fails, Unmarshal returns an
\* error with cause ErrUnmarshal; the field that failed is the last one it
\* worked on, every field after it in the descriptor is as it was before
\* the call, and every field before it holds what its unmarshal function
\* assigned.
C22_FailFast ==
    FieldFailed =>
        /\ call.err.cause = ErrUnmarshal
        /\ call.steps # <<>>
        /\ IsErr(call.steps[Len(call.steps)].err)
        /\ \A k \in 1..(Len(call.steps) - 1) :
              /\ ~IsErr(call.steps[k].err)
              /\ DescriptorOfTyp[k].kind \notin {"SFG", "embedded"} =>
                    FieldAfter(DescriptorOfTyp[k]) =
                        callUnmarshaler(DescriptorOfTyp[k], FieldBefore(DescriptorOfTyp[k]),
                                        call.p).fv
        /\ \A k \in (Len(call.steps) + 1)..Len(DescriptorOfTyp) :
              Untouched(DescriptorOfTyp[k])

C22_Witness ==
    /\ FieldFailed
    /\ Len(call.steps) = 2
    /\ Len(DescriptorOfTyp) = 3
    /\ ~Untouched(DescriptorOfTyp[1])
    /\ DescriptorOfTyp[3].source = sourceBody
    /\ call.p.body = [readOK |-> TRUE, data |-> JStr(<<"h">>)]
    /\ Untouched(DescriptorOfTyp[3])

(***************************************************************************)
(* Properties of fields.                                                   *)
(***************************************************************************)
\* Every field of the struct and of its embedded structs, at any depth, as
\* [Name, Index].
RECURSIVE Flatten(_, _)
Flatten(st, index) ==
    UNION {{[Name |-> st[i].name, Index |-> Append(index, i)]}
              \cup (IF st[i].anon /\ IsStructKind(st[i].kind)
                    THEN Flatten(StructFieldsOf(st[i].kind), Append(index, i))
                    ELSE {}) : i \in 1..Len(st)}

AllFields == Flatten(typ.fields, <<>>)

\* The fields with the name of x that are no deeper than x, x included.
NoDeeper(x) == {y \in AllFields : y.Name = x.Name /\ Len(y.Index) <= Len(x.Index)}

\* C23: fields returns, ordered by index, exactly the fields that are alone
\* with their name at the shallowest depth where the name occurs: a name
\* that occurs twice or more at its shallowest depth is not returned at all.
C23_Shallowest ==
    call.op = "fields" =>
        /\ {[Name |-> call.got[k].Name, Index |-> call.got[k].Index] :
                k \in 1..Len(call.got)}
              = {x \in AllFields : NoDeeper(x) = {x}}
        /\ \A j, k \in 1..Len(call.got) :
              j < k => Less(call.got[j].Index, call.got[k].Index)

\* Two embedded structs with cancelling members below a deeper one: F is
\* in SF1 at depth 3 and in SFG and SF at depth 2.
C23_Witness ==
    /\ call.op = "fields"
    /\ Len(typ.fields) = 3
    /\ typ.fields[1].kind = "SF1"
    /\ typ.fields[2].kind = "SFG"
    /\ typ.fields[3].kind = "SF"
    /\ \A k \in 1..Len(call.got) : call.got[k].Name # <<"F">>
    /\ \E k \in 1..Len(call.got) :
          call.got[k].Name = <<"G">> /\ call.got[k].Index = <<2, 2>>

(***************************************************************************)
(* Properties of the path of the request that Marshal builds.              *)
(***************************************************************************)
\* The path from position j on with every placeholder replaced by the path
\* variable of its name and every other character kept.
RECURSIVE Replaced(_)
Replaced(j) ==
    IF j >= Len(call.path) THEN <<>>
    ELSE IF IsPlaceholder(j) THEN BoundValue(NameAt(j)) \o Replaced(NameEnd(j))
    ELSE <<CharAt(j)>> \o Replaced(j + 1)

\* The text of the path that follows its last placeholder.
AfterLastPlaceholder ==
    IF \E j \in Positions : IsPlaceholder(j)
    THEN LET last == CHOOSE j \in Positions :
                         IsPlaceholder(j) /\ \A k \in Positions : IsPlaceholder(k) => k <= j
         IN  Slice(call.path, NameEnd(last), Len(call.path))
    ELSE <<>>

\* C24 (as stated): the path of the request that Marshal returns is the
\* path it was given with each ":name" placeholder replaced by its value
\* and every other character, the text after the last placeholder
\* included, unchanged and in place.
C24_AsStated ==
    (call.op = "Marshal" /\ OfStruct /\ call.req # NoRequest) =>
        call.req[1].path = Replaced(0)

\* The failing input of C24: "/:a/" with a string field a holding "o"
\* gives the path "/o".
C24_Witness ==
    /\ call.op = "Marshal"
    /\ call.path = <<"/", ":", "a", "/">>
    /\ IsBound(<<"a">>)
    /\ BoundValue(<<"a">>) = <<"o">>
    /\ ~IsErr(call.err)
    /\ call.req # NoRequest
    /\ call.req[1].path = <<"/", "o">>
    /\ Replaced(0) = <<"/", "o", "/">>

AllNil(source, name) ==
    /\ \E k \in 1..Len(DescriptorOfTyp) :
          DescriptorOfTyp[k].source = source /\ DescriptorOfTyp[k].name = name
    /\ \A k \in 1..Len(DescriptorOfTyp) :
          (DescriptorOfTyp[k].source = source /\ DescriptorOfTyp[k].name = name) =>
              /\ ~FieldByIndex(call.x, typ.fields, DescriptorOfTyp[k].index).panic
              /\ IsEmptyValue(DescriptorOfTyp[k],
                              FieldByIndex(call.x, typ.fields, DescriptorOfTyp[k].index).v)

\* The names of the fields of the descriptor.
DescriptorNames == {DescriptorOfTyp[k].name : k \in 1..Len(DescriptorOfTyp)}

\* C26: Marshal leaves the value it is given as it was, nil pointers
\* included, and a field that is a nil pointer adds nothing to the request:
\* no path variable, no query value and no body.
C26_ValueUnchanged ==
    call.op = "Marshal" =>
        /\ call.xAfter = call.x
        /\ \A n \in DescriptorNames :
              /\ AllNil(sourcePath, n) =>
                    \A k \in 1..Len(call.pathVar) : call.pathVar[k].Key # n
              /\ (AllNil(sourceForm, n) /\ call.req # NoRequest) =>
                    n \notin DOMAIN call.req[1].form
              /\ (AllNil(sourceBody, n) /\ call.req # NoRequest) =>
                    call.req[1].body = JEmpty

\* A nil pointer to a string bound to the path: Marshal leaves it nil and
\* reports the missing path parameter.
C26_Witness ==
    /\ call.op = "Marshal"
    /\ call.path = <<"/", ":", "a">>
    /\ AllNil(sourcePath, <<"a">>)
    /\ call.x[1] = <<>>
    /\ call.xAfter[1] = <<>>
    /\ call.pathVar = <<>>
    /\ call.err.kind = MissingValue

(***************************************************************************)
(* Properties of the cache under concurrent callers.                       *)
(***************************************************************************)
\* The goroutine stored its descriptor in this step.
Stores ==
    /\ call.op = "getRequestTypes"
    /\ call'.op = "getRequestTypes"
    /\ call'.owner # call.owner

\* C27: an entry of typeMap is never replaced or removed; a goroutine
\* stores a descriptor only when the type has no entry, so that a type is
\* stored at most once however the callers interleave and however many
\* rounds of calls there are; and a type that does not parse never gets an
\* entry.
C27_StoredOnce ==
    /\ [](IsErr(parseRequestType(typ).err) => typ \notin DOMAIN typeMap)
    /\ [][/\ \A t \in DOMAIN typeMap : t \in DOMAIN typeMap' /\ typeMap'[t] = typeMap[t]
          /\ Stores => typ \notin DOMAIN typeMap /\ typ \in DOMAIN typeMap'
          /\ typeMap' # typeMap => Stores]_vars

\* A goroutine that lost the race holds the write lock and has found the
\* descriptor that another goroutine stored.
C27_Witness ==
    /\ call.op = "getRequestTypes"
    /\ \E p \in 1..call.n :
          /\ call.pc[p] = "Unlock"
          /\ call.local[p].found
          /\ call.owner \notin {0, p}
          /\ call.ret[p].id = call.owner

\* The locks a goroutine holds are those of the place it is at.
HoldsRead(p) == call.pc[p] \in {"read", "RUnlock"}
HoldsWrite(p) == call.pc[p] \in {"locked", "store", "Unlock"}

LocksAsHeld ==
    call.op = "getRequestTypes" =>
        /\ call.readers = Cardinality({p \in 1..call.n : HoldsRead(p)})
        /\ \A p \in 1..call.n : HoldsWrite(p) <=> call.writer = p
        /\ \A p \in 1..call.n :
              call.pc[p] \in {"RLock", "Lock", "done"} => ~HoldsRead(p) /\ call.writer # p

AllReturned == call.op = "getRequestTypes" /\ \A p \in 1..call.n : call.pc[p] = "done"

\* C28: under fair scheduling every call of getRequestType returns, for a
\* cached, an uncached and an invalid type alike: a goroutine that waits
\* for a lock or has returned holds no lock (the read lock is given up
\* before the write lock is asked for, and the write lock is given up on
\* every way out, the parse error included), and every round of concurrent
\* calls ends with all of them returned.
C28_EveryCallReturns ==
    /\ []LocksAsHeld
    /\ (call.op = "getRequestTypes") ~> AllReturned

\* Three goroutines called with a type that does not parse and all have
\* returned the error, the lock free again.
C28_Witness ==
    /\ AllReturned
    /\ call.n = MaxCallers
    /\ call.writer = 0
    /\ call.readers = 0
    /\ \A p \in 1..call.n : IsErr(call.ret[p].err)

(***************************************************************************)
(* Embedded pointers.                                                      *)
(***************************************************************************)
\* The descriptors of the type, and whether one has the given index.
Descriptors == parseRequestType(typ).pt
HasDescriptor(index) == \E i \in 1..Len(Descriptors) : Descriptors[i].index = index

\* C29: Unmarshal into a struct with an embedded pointer-to-struct member
\* allocates the pointer before it reads a field promoted through it, for
\* every request, so that following an index path never goes through a
\* nil pointer.
C29_AsStated == call.op = "Unmarshal" => ~call.panic

\* Unmarshal into a new struct { SFG int; *P } panicked: the descriptor of
\* P's own member SFG lost to the field called SFG, and those of F and G,
\* promoted through it, are still there.
C29_Witness ==
    /\ call.op = "Unmarshal"
    /\ call.panic
    /\ call.x0 = ZeroStruct(typ.fields)
    /\ call.p.form = EmptyMap
    /\ ~HasDescriptor(<<2, 1>>)
    /\ HasDescriptor(<<2, 1, 1>>)

(***************************************************************************)
(* The responses of the adapter.                                           *)
(***************************************************************************)
\* The calls that the function itself made on the response writer, and the
\* calls the adapter made after them.
FunctionCalls ==
    IF call.fnCalls = 0 \/ handler.ft.in[1] # paramsType THEN <<>>
    ELSE ApplyWrites(NewRecorder, call.b.writes, NumOut(handler.ft) > 1).calls

AdapterCalls == SubSeq(call.w.calls, Len(FunctionCalls) + 1, Len(call.w.calls))

\* One response: a status and then a body.
OneResponse(calls, code) ==
    /\ Len(calls) = 2
    /\ calls[1].op = "WriteHeader"
    /\ calls[1].code = code
    /\ calls[2].op = "Write"

\* C30: in a run of a handler made by Handle, the calls on the response
\* writer are those of the function followed by at most one response of the
\* adapter: nothing, or the response to the one error given to the
\* ErrorMapper, or the status 200 with the encoded result when no error was
\* mapped; and when the result cannot be encoded, the only status and body
\* the adapter writes are those of the error response.
C30_AtMostOneResponse ==
    (call.op = "ServeHTTP" /\ handler.by = "Handle") =>
        /\ Len(call.w.calls) >= Len(FunctionCalls)
        /\ SubSeq(call.w.calls, 1, Len(FunctionCalls)) = FunctionCalls
        /\ Len(call.mapped) <= 1
        /\ \/ AdapterCalls = <<>>
           \/ /\ Len(call.mapped) = 1
              /\ OneResponse(AdapterCalls, errorMapper(call.mapped[1]).status)
              /\ AdapterCalls[2].data = MappedBody(call.mapped[1])
           \/ /\ call.mapped = <<>>
              /\ NumOut(handler.ft) = 2
              /\ OneResponse(AdapterCalls, StatusOK)
              /\ AdapterCalls[2].data = EncodedResult.data
        /\ (CalledWithResult /\ call.fnCalls = 1 /\ ~IsErr(call.b.err)
               /\ IsErr(EncodedResult.err)) =>
              /\ call.mapped = <<EncodedResult.err>>
              /\ OneResponse(AdapterCalls, StatusInternalServerError)
              /\ call.w.code = StatusInternalServerError
              /\ call.w.body = <<MappedBody(EncodedResult.err)>>

\* A function that set a header returned a channel and no error: the
\* adapter wrote the error response and nothing before it.
C30_Witness ==
    /\ CalledWithResult
    /\ call.fnCalls = 1
    /\ ~IsErr(call.b.err)
    /\ IsErr(EncodedResult.err)
    /\ Len(call.b.writes) = 1
    /\ call.b.writes[1].op = "SetHeader"
    /\ Len(call.w.calls) = 2
    /\ call.w.calls[1].code = StatusInternalServerError

====
